---- MODULE Spec2Model ----
(***************************************************************************)
(* A model of the SquashFS reader of bootlin/squashfs-utils: the u-boot    *)
(* driver src/uboot/squashfs/sqfs.c with its helpers sqfs_inode.c and      *)
(* sqfs_dir.c.                                                             *)
(*                                                                         *)
(* An image is a record holding the superblock fields the driver reads,    *)
(* the decoded inode table (a sequence of inodes, laid out back to back    *)
(* with the sizes of the structs of sqfs_filesystem.h), the decoded        *)
(* directory table (a sequence of listings, each a sequence of             *)
(* header+entries chunks) and the data area.  Pointers into a table are    *)
(* byte offsets from the table's start.                                    *)
(***************************************************************************)
EXTENDS Integers, Sequences, FiniteSets, TLC

VARIABLES
    cur_dev,      \* static struct blk_desc *cur_dev: "NULL" or a device name
    pc,           \* where the caller of the driver stands: "idle", "ls_loop", "ls_close"
    res,          \* the record of the last driver call: its arguments and results
    dirs,         \* struct squashfs_dir_stream of the sqfs_ls in progress
    heap,         \* allocation state of the decoded tables and count of free() calls
    listing       \* the entries sqfs_ls has printed so far

vars == <<cur_dev, pc, res, dirs, heap, listing>>

-----------------------------------------------------------------------------
(* Program constants *)

SQFS_MAGIC_NUMBER == 1936814952      \* 0x73717368
SQFS_METADATA_BLOCK_SIZE == 8192
SQFS_HEADER_SIZE == 2
SQFS_DIR_HEADER_SIZE == 12
SQFS_ENTRY_BASE_LENGTH == 8
SQFS_DIR_INDEX_BASE_LENGTH == 12
SQFS_EMPTY_FILE_SIZE == 3
SQFS_STOP_READDIR == 0
SQFS_EMPTY_DIR == -1
SQFS_DIR_TYPE == 1
SQFS_REG_TYPE == 2
SQFS_SYMLINK_TYPE == 3
SQFS_BLKDEV_TYPE == 4
SQFS_CHRDEV_TYPE == 5
SQFS_FIFO_TYPE == 6
SQFS_SOCKET_TYPE == 7
SQFS_LDIR_TYPE == 8
SQFS_LREG_TYPE == 9
SQFS_LSYMLINK_TYPE == 10
SQFS_LBLKDEV_TYPE == 11
SQFS_LCHRDEV_TYPE == 12
SQFS_LFIFO_TYPE == 13
SQFS_LSOCKET_TYPE == 14
\* The fragment index 0xFFFFFFFF of a file without fragment, written as the
\* 32-bit two's complement it is (TLC's integers are 32-bit).
NO_FRAGMENT == -1
EINVAL == 22
CMD_RET_SUCCESS == 0
CMD_RET_FAILURE == 1

NULL == "NULL"

-----------------------------------------------------------------------------
(* Bounds of the model *)

\* The largest word found in memory the driver reads without owning it.
MaxJunk == 2

\* The reads of freed tables are counted up to this number.
MaxStale == 2

\* The largest number of inodes of an inode table handed to sqfs_find_inode
\* on its own.
MaxInodes == 2

\* sqfs_read is called with offset 0 or MaxOffset, and with len 0, MaxLen
\* or the size of a file of the image.
MaxOffset == 7
MaxLen == 5

-----------------------------------------------------------------------------
(* Small helpers *)

Min(a, b) == IF a < b THEN a ELSE b

\* DIV_ROUND_UP(n, d) == ((n) + (d) - 1) / (d)
DIV_ROUND_UP(n, d) == (n + d - 1) \div d

-----------------------------------------------------------------------------
(* Inodes: one record shape for the 14 variants; a field a variant does not *)
(* have is 0 or <<>>.  index is the list of directory-index entries stored  *)
(* after an extended directory inode, each [size, name] with                *)
(* Len(name) = size + 1; block_list is the list of u32 block sizes stored   *)
(* after a (extended) regular inode.                                        *)

Inode(t, n) ==
    [inode_type |-> t, inode_number |-> n, file_size |-> 0, start_block |-> 0,
     offset |-> 0, fragment |-> NO_FRAGMENT, i_count |-> 0, index |-> <<>>,
     symlink_size |-> 0, block_list |-> <<>>]

DirInode(n, size, blk, off) ==
    [Inode(SQFS_DIR_TYPE, n) EXCEPT !.file_size = size, !.start_block = blk,
                                    !.offset = off]

RegInode(n, size, start, frag, off, blocks) ==
    [Inode(SQFS_REG_TYPE, n) EXCEPT !.file_size = size, !.start_block = start,
                                    !.fragment = frag, !.offset = off,
                                    !.block_list = blocks]

\* sizeof() of the structs of sqfs_filesystem.h
SizeofInode(t) ==
    CASE t = SQFS_DIR_TYPE -> 32
      [] t = SQFS_REG_TYPE -> 32
      [] t = SQFS_LDIR_TYPE -> 40
      [] t = SQFS_LREG_TYPE -> 56
      [] t \in {SQFS_SYMLINK_TYPE, SQFS_LSYMLINK_TYPE} -> 24
      [] t \in {SQFS_BLKDEV_TYPE, SQFS_CHRDEV_TYPE} -> 24
      [] t \in {SQFS_LBLKDEV_TYPE, SQFS_LCHRDEV_TYPE} -> 28
      [] t \in {SQFS_FIFO_TYPE, SQFS_SOCKET_TYPE} -> 20
      [] t \in {SQFS_LFIFO_TYPE, SQFS_LSOCKET_TYPE} -> 24
      [] OTHER -> 16

RECURSIVE IndexBytes(_)
IndexBytes(ix) ==
    IF ix = <<>> THEN 0
    ELSE SQFS_DIR_INDEX_BASE_LENGTH + Head(ix).size + 1 + IndexBytes(Tail(ix))

\* The bytes an inode occupies in the decoded inode table: the struct, then
\* its trailer (block list, index entries with their names, symlink target).
InodeBytes(ino) ==
    SizeofInode(ino.inode_type)
    + 4 * Len(ino.block_list)
    + IndexBytes(ino.index)
    + ino.symlink_size

RECURSIVE InodePos(_, _)
InodePos(tbl, k) ==
    IF k <= 1 THEN 0 ELSE InodePos(tbl, k - 1) + InodeBytes(tbl[k - 1])

\* The decoded inode table made of the inodes `seq`: the inodes and, for
\* each byte position where an inode starts, that inode.
InodeTable(seq) ==
    [inodes |-> seq,
     at |-> [p \in {InodePos(seq, k) : k \in 1..Len(seq)} |->
                seq[CHOOSE k \in 1..Len(seq) : InodePos(seq, k) = p]]]

-----------------------------------------------------------------------------
(* sqfs_find_inode (sqfs_inode.c).  A pointer into the inode table is a     *)
(* byte offset; NullPtr is the NULL pointer.  `junk` is the u32 word found  *)
(* in memory the walk reads without owning it: past a malloc'ed copy, at a  *)
(* position where no inode starts, in a freed buffer.                       *)

NullPtr == -1

SQFS_IS_FRAGMENTED(v) == v # NO_FRAGMENT

KnownInodeType(t) == t \in SQFS_DIR_TYPE..SQFS_LSOCKET_TYPE

\* memcpy(base, inode_table + offset, sizeof(*base)): the inode starting at
\* offset, or whatever bytes lie there.
ReadInode(tbl, offset, junk) ==
    IF offset \in DOMAIN tbl.at THEN tbl.at[offset] ELSE Inode(junk, junk)

\* The step over an inode with 32 bytes counted for the struct of a symbolic
\* link.
InodeStepSymlink32(ino, block_size, junk) ==
    IF ino.inode_type \in {SQFS_SYMLINK_TYPE, SQFS_LSYMLINK_TYPE}
    THEN 32 + ino.symlink_size
    ELSE InodeBytes(ino)

\* The number of bytes the walk steps over an inode (the switch of
\* sqfs_find_inode).  For an extended directory the index sizes are read
\* from ldir->index[l] of the 40-byte malloc'ed copy, that is from memory
\* past the copy.
InodeStep(ino, block_size, junk) ==
    LET t == ino.inode_type
    IN CASE t = SQFS_DIR_TYPE -> 32
         [] t = SQFS_REG_TYPE ->
              32 + 4 * (IF SQFS_IS_FRAGMENTED(ino.fragment)
                        THEN ino.file_size \div block_size
                        ELSE DIV_ROUND_UP(ino.file_size, block_size))
         [] t = SQFS_LDIR_TYPE ->
              IF ino.i_count = 0 THEN 40
              ELSE 40 + (ino.i_count + 1) * SQFS_DIR_INDEX_BASE_LENGTH
                      + (ino.i_count + 1) * (junk + 1)
         [] t = SQFS_LREG_TYPE ->
              56 + 4 * (IF ino.fragment = NO_FRAGMENT
                        THEN DIV_ROUND_UP(ino.file_size, block_size)
                        ELSE ino.file_size \div block_size)
         [] t \in {SQFS_SYMLINK_TYPE, SQFS_LSYMLINK_TYPE} -> 24 + ino.symlink_size
         [] t \in {SQFS_BLKDEV_TYPE, SQFS_CHRDEV_TYPE} -> 24
         [] t \in {SQFS_LBLKDEV_TYPE, SQFS_LCHRDEV_TYPE} -> 28
         [] t \in {SQFS_FIFO_TYPE, SQFS_SOCKET_TYPE} -> 20
         [] t \in {SQFS_LFIFO_TYPE, SQFS_LSOCKET_TYPE} -> 24
         [] OTHER -> 0

\* The walk wrote past one of its allocations: from there on nothing is
\* known of the call.
HeapCorrupt == -2

\* lipc = malloc(sizeof(*ipc)); memcpy(lipc, ..., sizeof(*lipc)): 24 bytes
\* copied into an allocation of 20.  slack: whether the allocator rounded
\* the 20 bytes up to 24 or more.
LipcOverflow(t, slack) ==
    t \in {SQFS_LFIFO_TYPE, SQFS_LSOCKET_TYPE} /\ ~slack

RECURSIVE FindWalk(_, _, _, _, _, _, _, _)
FindWalk(tbl, inode_number, inode_count, block_size, junk, slack, k, offset) ==
    IF k >= inode_count THEN NullPtr
    ELSE LET base == ReadInode(tbl, offset, junk)
         IN IF base.inode_number = inode_number THEN offset
            ELSE IF ~KnownInodeType(base.inode_type) THEN NullPtr
            ELSE IF LipcOverflow(base.inode_type, slack) THEN HeapCorrupt
            ELSE FindWalk(tbl, inode_number, inode_count, block_size, junk,
                          slack, k + 1,
                          offset + InodeStep(base, block_size, junk))

sqfs_find_inode(tbl, inode_number, inode_count, block_size, junk, slack) ==
    FindWalk(tbl, inode_number, inode_count, block_size, junk, slack, 0, 0)

-----------------------------------------------------------------------------
(* The decoded directory table: a sequence of listings laid out back to     *)
(* back; a listing is a sequence of chunks, a chunk is a 12-byte header     *)
(* [count, start, inode_number] followed by its entries                     *)
(* [offset, inode_offset, type, name], each 8 + Len(name) bytes, where      *)
(* name_size = Len(name) - 1.  A pointer into the table is a byte offset.   *)

Entry(off, delta, t, name) ==
    [offset |-> off, inode_offset |-> delta, type |-> t, name |-> name]

Chunk(start, base, entries) ==
    [count |-> Len(entries) - 1, start |-> start, inode_number |-> base,
     entries |-> entries]

RECURSIVE EntriesBytes(_)
EntriesBytes(es) ==
    IF es = <<>> THEN 0
    ELSE SQFS_ENTRY_BASE_LENGTH + Len(Head(es).name) + EntriesBytes(Tail(es))

RECURSIVE ChunksBytes(_)
ChunksBytes(cs) ==
    IF cs = <<>> THEN 0
    ELSE SQFS_DIR_HEADER_SIZE + EntriesBytes(Head(cs).entries)
         + ChunksBytes(Tail(cs))

RECURSIVE ListingPos(_, _)
ListingPos(dt, l) ==
    IF l <= 1 THEN 0 ELSE ListingPos(dt, l - 1) + ChunksBytes(dt[l - 1])

ChunkPos(dt, l, c) == ListingPos(dt, l) + ChunksBytes(SubSeq(dt[l], 1, c - 1))

EntryPos(dt, l, c, e) ==
    ChunkPos(dt, l, c) + SQFS_DIR_HEADER_SIZE
    + EntriesBytes(SubSeq(dt[l][c].entries, 1, e - 1))

\* A name of n bytes found where no entry starts.
JunkName(n) == [k \in 1..n |-> "?"]

\* The decoded directory table made of the listings `dt`: for each byte
\* position where a header, resp. an entry, starts, that header or entry.
DirTable(dt) ==
    LET lcs  == UNION {{<<l, c>> : c \in 1..Len(dt[l])} : l \in 1..Len(dt)}
        lces == UNION {{<<lc[1], lc[2], e>> :
                          e \in 1..Len(dt[lc[1]][lc[2]].entries)} : lc \in lcs}
    IN [lists |-> dt,
        header_at |-> [p \in {ChunkPos(dt, x[1], x[2]) : x \in lcs} |->
                          LET x == CHOOSE y \in lcs :
                                       ChunkPos(dt, y[1], y[2]) = p
                          IN dt[x[1]][x[2]]],
        entry_at |-> [p \in {EntryPos(dt, x[1], x[2], x[3]) : x \in lces} |->
                         LET x == CHOOSE y \in lces :
                                      EntryPos(dt, y[1], y[2], y[3]) = p
                         IN dt[x[1]][x[2]].entries[x[3]]]]

\* *(struct squashfs_directory_header *)(dir_table + p)
ReadHeader(dt, p, junk) ==
    IF p \in DOMAIN dt.header_at THEN dt.header_at[p]
    ELSE [count |-> junk, start |-> junk, inode_number |-> junk,
          entries |-> <<>>]

\* *(struct squashfs_directory_entry *)(dir_table + p)
ReadEntry(dt, p, junk) ==
    IF p \in DOMAIN dt.entry_at THEN dt.entry_at[p]
    ELSE Entry(junk, junk, junk, JunkName(junk + 1))

-----------------------------------------------------------------------------
(* The images on the devices.  Names and paths are sequences of one-char    *)
(* strings, file bytes are numbers.  The image holds                        *)
(*   /a/b/c.bin   35 bytes: two compressed data blocks and a 3-byte tail    *)
(*                in the fragment block                                     *)
(*   /data.bin    20 bytes in two data blocks stored uncompressed           *)
(*   /empty/      an empty directory (file_size 3)                          *)
(*   /hello.txt   the 13 bytes "Hello, world!", in the fragment block       *)
(* with a block size of 16 bytes, so that whole files stay enumerable       *)
(* (the driver reads block_size from the superblock and never checks it).   *)
(* On disk: superblock, data blocks from 96, fragment block at 127, inode   *)
(* table (one metadata block) at 136, directory table (one metadata block)  *)
(* at 228, the metadata block of fragment entries at 290, the fragment      *)
(* index table at 304.  inode_meta and dir_meta are the metadata blocks     *)
(* [comp, size] found from inode_table_start, resp. directory_table_start,  *)
(* up to the start of the next table.                                       *)

N_a     == <<"a">>
N_b     == <<"b">>
N_cbin  == <<"c", ".", "b", "i", "n">>
N_data  == <<"d", "a", "t", "a", ".", "b", "i", "n">>
N_empty == <<"e", "m", "p", "t", "y">>
N_hello == <<"h", "e", "l", "l", "o", ".", "t", "x", "t">>

UNCOMPRESSED_BIT == 16777216         \* 1 << 24

HelloBytes == <<72, 101, 108, 108, 111, 44, 32, 119, 111, 114, 108, 100, 33>>
CbinBytes  == [p \in 1..35 |-> 100 + p]
DataBytes  == [p \in 1..20 |-> 200 + p]

\* Inode numbers: 1 hello.txt, 2 empty, 3 c.bin, 4 b, 5 a, 6 data.bin, 7 root.
\* The directory references are filled in by InodesFor below; they do not
\* change the sizes, hence the positions.
MainLayout ==
    << RegInode(1, 13, 96, 0, 0, <<>>),
       DirInode(2, 3, 0, 0),
       RegInode(3, 35, 96, 0, 13, <<5, 6>>),
       DirInode(4, 0, 0, 0),
       DirInode(5, 0, 0, 0),
       RegInode(6, 20, 107, NO_FRAGMENT, 0,
                <<16 + UNCOMPRESSED_BIT, 4 + UNCOMPRESSED_BIT>>),
       DirInode(7, 0, 0, 0) >>

E_a     == Entry(InodePos(MainLayout, 5), 4, SQFS_DIR_TYPE, N_a)
E_b     == Entry(InodePos(MainLayout, 4), 0, SQFS_DIR_TYPE, N_b)
E_cbin  == Entry(InodePos(MainLayout, 3), 0, SQFS_REG_TYPE, N_cbin)
E_data  == Entry(InodePos(MainLayout, 6), 5, SQFS_REG_TYPE, N_data)
E_empty == Entry(InodePos(MainLayout, 2), 1, SQFS_DIR_TYPE, N_empty)
E_hello == Entry(InodePos(MainLayout, 1), 0, SQFS_REG_TYPE, N_hello)

\* Listings, in table order: b, a, root.  The root listing is one chunk
\* in the first table and two chunks in the second.
DirTableOneChunk ==
    << << Chunk(0, 3, <<E_cbin>>) >>,
       << Chunk(0, 4, <<E_b>>) >>,
       << Chunk(0, 1, <<E_a, E_data, E_empty, E_hello>>) >> >>

DirTableTwoChunks ==
    << << Chunk(0, 3, <<E_cbin>>) >>,
       << Chunk(0, 4, <<E_b>>) >>,
       << Chunk(0, 1, <<E_a, E_data>>), Chunk(0, 1, <<E_empty, E_hello>>) >> >>

DirRef(ino, dt, l) ==
    [ino EXCEPT !.file_size = SQFS_EMPTY_FILE_SIZE + ChunksBytes(dt[l]),
                !.start_block = 0, !.offset = ListingPos(dt, l)]

InodesFor(layout, dt) ==
    [layout EXCEPT ![4] = DirRef(@, dt, 1),
                   ![5] = DirRef(@, dt, 2),
                   ![7] = DirRef(@, dt, 3),
                   ![2] = [@ EXCEPT !.offset = ListingPos(dt, 4)]]

\* Stored blocks of the data area: [at, len, comp, bytes], where len is the
\* on-disk length and bytes the decoded content.
MainBlocks ==
    { [at |-> 96,  len |-> 5,  comp |-> TRUE,  bytes |-> SubSeq(CbinBytes, 1, 16)],
      [at |-> 101, len |-> 6,  comp |-> TRUE,  bytes |-> SubSeq(CbinBytes, 17, 32)],
      [at |-> 107, len |-> 16, comp |-> FALSE, bytes |-> SubSeq(DataBytes, 1, 16)],
      [at |-> 123, len |-> 4,  comp |-> FALSE, bytes |-> SubSeq(DataBytes, 17, 20)],
      [at |-> 127, len |-> 9,  comp |-> TRUE,
       bytes |-> HelloBytes \o SubSeq(CbinBytes, 33, 35)] }

MainFragments == << [start |-> 127, size |-> 9] >>

\* The same files in an image made without compression of data blocks and
\* fragments (flag bits 1 and 3 of the superblock): every block is stored
\* as it is, and the tables start 28 bytes later.
SQFS_UNCOMPRESSED_DATA == 2
SQFS_UNCOMPRESSED_FRAGMENTS == 8

PlainLayout ==
    [MainLayout EXCEPT
        ![3] = [@ EXCEPT !.block_list = <<16 + UNCOMPRESSED_BIT,
                                          16 + UNCOMPRESSED_BIT>>],
        ![6] = [@ EXCEPT !.start_block = 128]]

PlainBlocks ==
    { [at |-> 96,  len |-> 16, comp |-> FALSE, bytes |-> SubSeq(CbinBytes, 1, 16)],
      [at |-> 112, len |-> 16, comp |-> FALSE, bytes |-> SubSeq(CbinBytes, 17, 32)],
      [at |-> 128, len |-> 16, comp |-> FALSE, bytes |-> SubSeq(DataBytes, 1, 16)],
      [at |-> 144, len |-> 4,  comp |-> FALSE, bytes |-> SubSeq(DataBytes, 17, 20)],
      [at |-> 148, len |-> 16, comp |-> FALSE,
       bytes |-> HelloBytes \o SubSeq(CbinBytes, 33, 35)] }

PlainFragments == << [start |-> 148, size |-> 16 + UNCOMPRESSED_BIT] >>

MainImage(magic, dt, layout, blocks, frags, flags, shift) ==
    [s_magic |-> magic, inodes |-> 7, block_size |-> 16, fragments |-> 1,
     compression |-> 1, flags |-> flags,
     inode_table_start |-> 136 + shift,
     directory_table_start |-> 228 + shift,
     fragment_table_start |-> 304 + shift,
     export_table_start |-> 312 + shift,
     inode_meta |-> << [comp |-> TRUE, size |-> 90] >>,
     dir_meta |-> << [comp |-> TRUE, size |-> 60], [comp |-> TRUE, size |-> 12] >>,
     inode_table |-> InodeTable(InodesFor(layout, dt)),
     dir_table |-> DirTable(dt),
     frag_entries |-> frags,
     blocks |-> blocks]

\* What the block devices hold: three SquashFS images, an image whose
\* magic is the byte-swapped number, and a blank disk.
ImageMmc0 ==
    MainImage(SQFS_MAGIC_NUMBER, DirTableOneChunk, MainLayout, MainBlocks,
              MainFragments, 0, 0)
ImageMmc1 ==
    MainImage(SQFS_MAGIC_NUMBER, DirTableTwoChunks, MainLayout, MainBlocks,
              MainFragments, 0, 0)
ImageMmc2 ==
    MainImage(SQFS_MAGIC_NUMBER, DirTableOneChunk, PlainLayout, PlainBlocks,
              PlainFragments,
              SQFS_UNCOMPRESSED_DATA + SQFS_UNCOMPRESSED_FRAGMENTS, 28)
\* The first image with the fragment index of hello.txt out of range
\* (fragments = 1).
BadFragLayout == [MainLayout EXCEPT ![1] = [@ EXCEPT !.fragment = 1]]
ImageMmc3 ==
    MainImage(SQFS_MAGIC_NUMBER, DirTableOneChunk, BadFragLayout, MainBlocks,
              MainFragments, 0, 0)
\* The first image with an inode type no variant has (0) in the first inode
\* of the table.
BadTypeLayout == [MainLayout EXCEPT ![1] = [@ EXCEPT !.inode_type = 0]]
ImageMmc4 ==
    MainImage(SQFS_MAGIC_NUMBER, DirTableOneChunk, BadTypeLayout, MainBlocks,
              MainFragments, 0, 0)
\* The first image with the root listing as mksquashfs writes it: the
\* header holds the inode number of data.bin, 6, and the entries their
\* signed distance to it.
DirTableSignedDelta ==
    << << Chunk(0, 3, <<E_cbin>>) >>,
       << Chunk(0, 4, <<E_b>>) >>,
       << Chunk(0, 6, << [E_a EXCEPT !.inode_offset = -1],
                         [E_data EXCEPT !.inode_offset = 0],
                         [E_empty EXCEPT !.inode_offset = -4],
                         [E_hello EXCEPT !.inode_offset = -5] >>) >> >>
ImageMmc5 ==
    MainImage(SQFS_MAGIC_NUMBER, DirTableSignedDelta, MainLayout, MainBlocks,
              MainFragments, 0, 0)
ImageUsb0 ==
    MainImage(1752396147, DirTableOneChunk, MainLayout, MainBlocks,
              MainFragments, 0, 0)
ImageUsb1 ==
    MainImage(0, DirTableOneChunk, MainLayout, MainBlocks, MainFragments, 0, 0)

Devices == {"mmc0", "mmc1", "usb0", "usb1"}

DiskOf(dev) ==
    CASE dev = "mmc0" -> ImageMmc0
      [] dev = "mmc1" -> ImageMmc1
      [] dev = "mmc2" -> ImageMmc2
      [] dev = "mmc3" -> ImageMmc3
      [] dev = "mmc4" -> ImageMmc4
      [] dev = "mmc5" -> ImageMmc5
      [] dev = "usb0" -> ImageUsb0
      [] OTHER        -> ImageUsb1

-----------------------------------------------------------------------------
(* The block layer.  A call of the driver issues its disk reads in order;   *)
(* the device serves the reads before the fail_at-th and fails from there   *)
(* on (fail_at = n + 1 for a call that issues up to n reads: the device     *)
(* never fails during the call).                                            *)

FailPoints(n) == 1..(n + 1)

\* The number of disk_read calls of sqfs_probe and of sqfs_opendir (the
\* superblock, the two tables, the superblock again in sqfs_search_dir).
ProbeReads == 1
OpendirReads == 4

ReadOk(r, fail_at) == r < fail_at

\* blk_dread returns the number of blocks it read.
blk_dread(nr_blocks, ok) == IF ok THEN nr_blocks ELSE 0

disk_read(dev, nr_blocks, ok) ==
    IF dev = NULL THEN -1
    ELSE IF blk_dread(nr_blocks, ok) # nr_blocks THEN -1
    ELSE nr_blocks

-----------------------------------------------------------------------------
(* Helpers of sqfs_dir.c.  They take the inode a union squashfs_inode       *)
(* points to, as sqfs_filesystem.h declares them.                           *)

\* *ptr for a pointer into the inode table; address 0 and positions where
\* no inode starts hold junk.
DerefInode(tbl, ptr, junk) ==
    IF ptr = NullPtr THEN Inode(junk, junk) ELSE ReadInode(tbl, ptr, junk)

sqfs_is_dir(ino) == ino.inode_type \in {SQFS_DIR_TYPE, SQFS_LDIR_TYPE}

\* m_list[j] is the position of the end of metadata block j, that is of the
\* header of block j + 1.
sqfs_dir_offset(ino, m_list) ==
    IF ~sqfs_is_dir(ino) THEN -EINVAL
    ELSE LET hits == {j \in 1..Len(m_list) : m_list[j] = ino.start_block}
         IN IF hits # {}
            THEN (CHOOSE j \in hits : \A h \in hits : j <= h)
                     * SQFS_METADATA_BLOCK_SIZE + ino.offset
            ELSE IF ino.start_block = 0 THEN ino.offset
            ELSE -EINVAL

sqfs_is_empty_dir(ino) ==
    /\ sqfs_is_dir(ino)
    /\ ino.file_size = SQFS_EMPTY_FILE_SIZE

-----------------------------------------------------------------------------
(* Paths and tokens *)

SLASH == "/"

sqfs_count_tokens(path) ==
    1 + Cardinality({l \in 2..Len(path) : path[l] = SLASH})

\* The tokens strtok(path, "/") returns, in order.
RECURSIVE Strtok(_, _)
Strtok(path, cur) ==
    IF path = <<>> THEN (IF cur = <<>> THEN <<>> ELSE <<cur>>)
    ELSE IF Head(path) = SLASH
         THEN (IF cur = <<>> THEN <<>> ELSE <<cur>>) \o Strtok(Tail(path), <<>>)
         ELSE Strtok(Tail(path), Append(cur, Head(path)))

\* token_count as sqfs_opendir computes it.
opendir_token_count(path) ==
    sqfs_count_tokens(path) - (IF path[Len(path)] = SLASH THEN 1 ELSE 0)

\* token_list as sqfs_opendir fills it.
opendir_token_list(path) ==
    IF path = <<SLASH>> THEN << <<SLASH>> >>
    ELSE SubSeq(Strtok(path, <<>>), 1, opendir_token_count(path))

-----------------------------------------------------------------------------
(* sqfs_search_dir *)

U16(x) == x % 65536

\* The for (k = 0; k <= parent_header->count; k++) loop over the entries
\* that follow the header at hp: found, with the entry, or not found;
\* compared tells whether `equals` was assigned at all.
RECURSIVE ScanEntries(_, _, _, _, _, _, _)
ScanEntries(dt, hp, count, token, k, total_length, junk) ==
    IF k > count THEN [found |-> FALSE, compared |-> FALSE]
    ELSE LET dir_entry == ReadEntry(dt, hp + SQFS_DIR_HEADER_SIZE + total_length,
                                    junk)
             name_length == Len(dir_entry.name)
             next == total_length + SQFS_ENTRY_BASE_LENGTH + name_length
         IN IF Len(token) # name_length
            THEN ScanEntries(dt, hp, count, token, k + 1, next, junk)
            ELSE IF dir_entry.name = token
            THEN [found |-> TRUE, compared |-> TRUE, entry |-> dir_entry]
            ELSE [ScanEntries(dt, hp, count, token, k + 1, next, junk)
                      EXCEPT !.compared = TRUE]

\* The for (j = 0; j < token_count; j++) loop and what follows it.  i is the
\* pointer to the current inode, equals the flag as the previous token left
\* it.  The images hold no extended fifo or socket inode, so that the walk
\* makes no lipc copy (slack).
RECURSIVE SearchTokens(_, _, _, _, _, _, _)
SearchTokens(img, tokens, m_list, junk, j, i, equals) ==
    LET slack == TRUE
        Failed(ret) == [ret |-> ret, filled |-> FALSE, table |-> 0,
                        i |-> NullPtr]
        \* the inode the matching entry names
        Match(ni) ==
            IF sqfs_is_empty_dir(DerefInode(img.inode_table, ni, junk))
            THEN Failed(SQFS_EMPTY_DIR)
            ELSE SearchTokens(img, tokens, m_list, junk, j + 1, ni, TRUE)
        \* after the for (k ...) loop over the entries behind header hdr
        Scanned(hdr, sc) ==
            IF sc.found
            THEN Match(sqfs_find_inode(img.inode_table,
                                       U16(sc.entry.inode_offset)
                                           + hdr.inode_number,
                                       img.inodes, img.block_size, junk,
                                       slack))
            ELSE IF sc.compared \/ ~equals
            THEN Failed(-EINVAL)
            ELSE SearchTokens(img, tokens, m_list, junk, j + 1, i, equals)
        Header(hp, hdr) ==
            Scanned(hdr, ScanEntries(img.dir_table, hp, hdr.count, tokens[j],
                                     0, 0, junk))
        Parent(hp) == Header(hp, ReadHeader(img.dir_table, hp, junk))
        Token(ino) ==
            IF j > Len(tokens)
            THEN [ret |-> 0, filled |-> TRUE,
                  table |-> sqfs_dir_offset(ino, m_list), i |-> i]
            ELSE IF ~sqfs_is_dir(ino)
            THEN Failed(-EINVAL)
            ELSE Parent(sqfs_dir_offset(ino, m_list))
    IN Token(DerefInode(img.inode_table, i, junk))

\* ok: whether the read of the superblock succeeds.  filled tells whether
\* dirs->table and dirs->i were assigned; dev_lost whether cur_dev was reset.
sqfs_search_dir(img, tokens, token_count, m_list, ok, junk) ==
    LET slack == TRUE
        Result(r) == [ret |-> r.ret, filled |-> r.filled, table |-> r.table,
                      i |-> r.i, dev_lost |-> FALSE]
        From(root) ==
            IF tokens[1] = <<SLASH>>
            THEN [ret |-> 0, filled |-> TRUE,
                  table |-> sqfs_dir_offset(
                                DerefInode(img.inode_table, root, junk),
                                m_list),
                  i |-> root, dev_lost |-> FALSE]
            ELSE Result(SearchTokens(img, SubSeq(tokens, 1, token_count),
                                     m_list, junk, 1, root, FALSE))
    IN IF ~ok
       THEN [ret |-> -1, filled |-> FALSE, table |-> 0, i |-> NullPtr,
             dev_lost |-> TRUE]
       ELSE From(sqfs_find_inode(img.inode_table, img.inodes, img.inodes,
                                 img.block_size, junk, slack))

-----------------------------------------------------------------------------
(* Metadata block headers *)

RECURSIVE MetaPos(_, _)
MetaPos(meta, j) ==
    IF j <= 1 THEN 0
    ELSE MetaPos(meta, j - 1) + meta[j - 1].size + SQFS_HEADER_SIZE

\* The header at byte pos of the table; junk where no block starts.
ReadMetaHeader(meta, pos, junk) ==
    LET hits == {j \in 1..Len(meta) : MetaPos(meta, j) = pos}
    IN IF hits = {} THEN [comp |-> TRUE, size |-> junk]
       ELSE meta[CHOOSE j \in hits : TRUE]

sqfs_read_metablock(meta, pos, junk) ==
    LET h == ReadMetaHeader(meta, pos, junk)
    IN [ret |-> IF h.size > SQFS_METADATA_BLOCK_SIZE THEN -EINVAL ELSE 0,
        compressed |-> h.comp, data_size |-> h.size]

RECURSIVE CountLoop(_, _, _, _, _)
CountLoop(meta, table_size, junk, count, cur_size) ==
    LET r == sqfs_read_metablock(meta, cur_size, junk)
        next == cur_size + r.data_size + SQFS_HEADER_SIZE
    IN IF r.ret # 0 THEN -EINVAL
       ELSE IF next < table_size
            THEN CountLoop(meta, table_size, junk, count + 1, next)
            ELSE count + 1

count_metablks(meta, table_size, junk) ==
    CountLoop(meta, table_size, junk, 0, 0)

\* pos_list, or <<-EINVAL>> when a header is refused.
RECURSIVE PosLoop(_, _, _, _, _)
PosLoop(meta, metablks_count, junk, j, cur_size) ==
    IF j >= metablks_count THEN <<>>
    ELSE LET r == sqfs_read_metablock(meta, cur_size, junk)
             next == cur_size + r.data_size + SQFS_HEADER_SIZE
         IN IF r.ret # 0 THEN <<-EINVAL>>
            ELSE <<next>> \o PosLoop(meta, metablks_count, junk, j + 1, next)

get_metadatablk_pos(meta, metablks_count, junk) ==
    PosLoop(meta, metablks_count, junk, 0, 0)

-----------------------------------------------------------------------------
(* sqfs_opendir.  The call issues its reads from number `r` on.  The        *)
(* record tells the return value, the cur_dev left, whether search_dir      *)
(* assigned dirs->table and dirs->i, and, for each decoded table, whether   *)
(* it was malloc'ed and how many times it was passed to free() before the   *)
(* return.  The tables of the images here are one metadata block each, so   *)
(* the decoded inode table is img.inode_table and the decoded directory     *)
(* table img.dir_table.                                                     *)

OpendirResult(ret, dev, sd, it, dt) ==
    [ret |-> ret, cur_dev |-> dev, filled |-> sd.filled, table |-> sd.table,
     i |-> sd.i,
     inode_table_alloc |-> it, inode_table_frees |-> IF it THEN 1 ELSE 0,
     dir_table_alloc |-> dt, dir_table_frees |-> IF dt THEN 1 ELSE 0]

NotSearched == [filled |-> FALSE, table |-> 0, i |-> NullPtr]

opendir(dev, filename, r, fail_at, junk) ==
    LET \* sqfs_search_dir returned sd; free_mem: free(pos_list);
        \* free(inode_table); free(dir_table); return ret
        Searched(sd) ==
            OpendirResult(sd.ret, IF sd.dev_lost THEN NULL ELSE dev, sd,
                          TRUE, TRUE)
        Path(img, pos_list) ==
            IF pos_list # <<>> /\ pos_list[Len(pos_list)] = -EINVAL
            THEN OpendirResult(-EINVAL, dev, NotSearched, TRUE, TRUE)
            ELSE Searched(sqfs_search_dir(img, opendir_token_list(filename),
                                          opendir_token_count(filename),
                                          pos_list, ReadOk(r + 3, fail_at),
                                          junk))
        DirTab(img, d_count) ==
            IF disk_read(dev, 1, ReadOk(r + 2, fail_at)) < 0
            THEN OpendirResult(-1, NULL, NotSearched, TRUE, FALSE)
            ELSE IF sqfs_read_metablock(img.dir_meta, 0, junk).ret # 0
            THEN OpendirResult(-EINVAL, dev, NotSearched, TRUE, FALSE)
            ELSE IF d_count < 1
            THEN OpendirResult(-EINVAL, dev, NotSearched, TRUE, FALSE)
            ELSE Path(img, get_metadatablk_pos(img.dir_meta, d_count, junk))
        InodeTab(img) ==
            IF disk_read(dev, 1, ReadOk(r + 1, fail_at)) < 0
            THEN OpendirResult(-1, NULL, NotSearched, FALSE, FALSE)
            ELSE IF sqfs_read_metablock(img.inode_meta, 0, junk).ret # 0
            THEN OpendirResult(-EINVAL, dev, NotSearched, FALSE, FALSE)
            ELSE IF count_metablks(img.inode_meta,
                                   img.directory_table_start
                                       - img.inode_table_start, junk) < 1
            THEN OpendirResult(-EINVAL, dev, NotSearched, FALSE, FALSE)
            ELSE DirTab(img, count_metablks(img.dir_meta,
                                            img.fragment_table_start
                                                - img.directory_table_start,
                                            junk))
    IN  \* superblock
        IF disk_read(dev, 1, ReadOk(r, fail_at)) # 1
        THEN OpendirResult(-1, NULL, NotSearched, FALSE, FALSE)
        ELSE InodeTab(DiskOf(dev))

-----------------------------------------------------------------------------
(* sqfs_probe *)

probe_magic_unchecked(fs_dev_desc, fail_at) ==
    IF disk_read(fs_dev_desc, 1, ReadOk(1, fail_at)) # 1
    THEN [ret |-> -1, cur_dev |-> NULL]
    ELSE [ret |-> 0, cur_dev |-> fs_dev_desc]

\* The return value of sqfs_probe and the cur_dev it leaves.
probe(fs_dev_desc, fail_at) ==
    IF disk_read(fs_dev_desc, 1, ReadOk(1, fail_at)) # 1
    THEN [ret |-> -1, cur_dev |-> NULL]
    ELSE IF DiskOf(fs_dev_desc).s_magic # SQFS_MAGIC_NUMBER
    THEN [ret |-> -1, cur_dev |-> NULL]
    ELSE [ret |-> 0, cur_dev |-> fs_dev_desc]

sqfs_probe(fs_dev_desc, fail_at) ==
    /\ pc = "idle"
    /\ \E r \in {probe(fs_dev_desc, fail_at)} :
          /\ cur_dev' = r.cur_dev
          /\ res' = [op |-> "probe", dev |-> fs_dev_desc, fail_at |-> fail_at,
                     ret |-> r.ret]
    /\ listing' = <<>>
    /\ UNCHANGED <<pc, dirs, heap>>

-----------------------------------------------------------------------------
(* sqfs_readdir on the stream d.  intact: whether the tables the stream     *)
(* points into still hold what sqfs_opendir decoded (a table that was       *)
(* passed to free() may or may not).  Returns the value returned, the       *)
(* stream as the call leaves it and the fs_dirent it filled.                *)

FS_DT_DIR == 4
FS_DT_REG == 8
FS_DT_LNK == 10
SQFS_MISC_ENTRY_TYPE == -1

JunkEntry(junk) == Entry(junk, junk, junk, JunkName(junk + 1))

JunkHeader(junk) ==
    [count |-> junk, start |-> junk, inode_number |-> junk, entries |-> <<>>]

DirentType(t) ==
    CASE t \in {SQFS_DIR_TYPE, SQFS_LDIR_TYPE} -> FS_DT_DIR
      [] t \in {SQFS_REG_TYPE, SQFS_LREG_TYPE} -> FS_DT_REG
      [] t \in {SQFS_SYMLINK_TYPE, SQFS_LSYMLINK_TYPE} -> FS_DT_LNK
      [] OTHER -> SQFS_MISC_ENTRY_TYPE

\* dirs->size is an int.  A subtraction that leaves its range is undefined;
\* IntSub is what a two's complement build without traps computes, and
\* SubOverflows tells the case.  b >= 0.
INT_MAX == 2147483647

SubOverflows(a, b) == a < 0 /\ (a + INT_MAX) + 1 < b

IntSub(a, b) ==
    IF SubOverflows(a, b) THEN INT_MAX - ((b - ((a + INT_MAX) + 1)) - 1)
    ELSE a - b

sqfs_readdir(img, d, dent, intact, junk) ==
    LET entry == IF intact THEN ReadEntry(img.dir_table, d.entry, junk)
                 ELSE JunkEntry(junk)
        inode == IF intact THEN ReadInode(img.inode_table, entry.offset, junk)
                 ELSE Inode(junk, junk)
        offset == Len(entry.name) + SQFS_ENTRY_BASE_LENGTH
        size1 == IntSub(d.size, offset)
        count1 == d.entry_count - 1
        size2 == IF count1 = 0 THEN IntSub(size1, SQFS_DIR_HEADER_SIZE)
                 ELSE size1
        overflow == \/ SubOverflows(d.size, offset)
                    \/ count1 = 0 /\ SubOverflows(size1, SQFS_DIR_HEADER_SIZE)
        next_header == d.entry + offset
        hdr == IF intact THEN ReadHeader(img.dir_table, next_header, junk)
               ELSE JunkHeader(junk)
        d2 == IF count1 = 0
              THEN IF size2 > SQFS_EMPTY_FILE_SIZE
                   THEN [d EXCEPT !.size = size2, !.table = d.entry,
                                  !.dir_header = next_header,
                                  !.entry_count = hdr.count + 1,
                                  !.entry = next_header + SQFS_DIR_HEADER_SIZE]
                   ELSE [d EXCEPT !.size = size2, !.table = d.entry,
                                  !.entry_count = 0]
              ELSE [d EXCEPT !.size = size2, !.table = d.entry,
                             !.entry_count = count1,
                             !.entry = d.entry + offset]
    IN \* dirs->size < sizeof(...): an int against a size_t, so that a
       \* negative size compares as a large number
       IF 0 <= d.size /\ d.size < SQFS_DIR_HEADER_SIZE
       THEN [ret |-> 0, dirs |-> d, dent |-> dent, overflow |-> FALSE]
       ELSE IF ~KnownInodeType(entry.type)
       THEN [ret |-> SQFS_STOP_READDIR, dirs |-> d, dent |-> dent,
             overflow |-> FALSE]
       ELSE [ret |-> IF size2 > 0 THEN 1 ELSE 0,
             dirs |-> d2,
             overflow |-> overflow,
             dent |-> [name |-> entry.name,
                       type |-> DirentType(entry.type),
                       size |-> IF entry.type \in {SQFS_REG_TYPE, SQFS_LREG_TYPE}
                                THEN inode.file_size ELSE dent.size]]

-----------------------------------------------------------------------------
(* The state of the two decoded tables on the heap *)

JunkWords == 0..MaxJunk

\* After sqfs_opendir returned o: each table it malloc'ed has been freed.
\* intact: whether the tables still hold what was decoded into them; they
\* do as long as they are allocated, and a freed table may lose it at any
\* time.
HeapAfterOpendir(o) ==
    [inode_table |-> IF o.inode_table_alloc
                     THEN (IF o.inode_table_frees > 0 THEN "freed" ELSE "live")
                     ELSE "none",
     dir_table |-> IF o.dir_table_alloc
                   THEN (IF o.dir_table_frees > 0 THEN "freed" ELSE "live")
                   ELSE "none",
     inode_table_frees |-> o.inode_table_frees,
     dir_table_frees |-> o.dir_table_frees,
     intact |-> TRUE,
     stale_reads |-> 0]

Freed(h) == h.inode_table = "freed" \/ h.dir_table = "freed"

IntactChoices(h) == IF Freed(h) /\ h.intact THEN BOOLEAN ELSE {h.intact}

\* A read of the tables, which hold their content or not (intact).
ReadTables(h, intact) ==
    [h EXCEPT !.intact = intact,
              !.stale_reads = IF Freed(h) THEN Min(@ + 1, MaxStale) ELSE @]

\* sqfs_closedir: free(inode_table); free(dir_table)
closedir(h) ==
    [h EXCEPT !.inode_table = "freed", !.dir_table = "freed",
              !.inode_table_frees = @ + 1, !.dir_table_frees = @ + 1]

-----------------------------------------------------------------------------
(* The driver as the filesystem layer calls it *)

NoStream ==
    [table |-> 0, size |-> 0, entry_count |-> 0, dir_header |-> 0, entry |-> 0,
     i |-> NullPtr]

NoDirent == [name |-> <<>>, type |-> 0, size |-> 0]

NoHeap ==
    [inode_table |-> "none", dir_table |-> "none",
     inode_table_frees |-> 0, dir_table_frees |-> 0, intact |-> TRUE,
     stale_reads |-> 0]

P_root      == <<SLASH>>
P_a         == <<SLASH>> \o N_a
P_a_slash   == P_a \o <<SLASH>>
P_a_b       == P_a_slash \o N_b
P_a_x       == P_a_slash \o <<"x">>
P_a_nope    == P_a_slash \o <<"n", "o", "p", "e">>
P_a_b_cbin  == P_a_b \o <<SLASH>> \o N_cbin
P_data      == <<SLASH>> \o N_data
P_empty     == <<SLASH>> \o N_empty
P_empty_sl  == P_empty \o <<SLASH>>
P_empty_x   == P_empty_sl \o <<"x">>
P_hello     == <<SLASH>> \o N_hello
P_hello_sl  == P_hello \o <<SLASH>>
P_nope      == <<SLASH, "n", "o", "p", "e">>

DirPaths ==
    {P_root, P_a, P_a_slash, P_a_b, P_a_x, P_a_nope, P_empty, P_empty_sl,
     P_empty_x, P_hello, P_hello_sl, P_nope}

\* A call of sqfs_opendir by a caller that hands in its own stream, as
\* sqfs_ls and sqfs_read do.  A NULL cur_dev is dereferenced for blksz
\* before the first read.
sqfs_opendir(filename, fail_at, junk) ==
    /\ pc = "idle"
    /\ \E o \in {opendir(cur_dev, filename, 1, fail_at, junk)} :
          /\ cur_dev' = o.cur_dev
          /\ heap' = HeapAfterOpendir(o)
          /\ res' = [op |-> "opendir", path |-> filename, dev |-> cur_dev,
                     fail_at |-> fail_at, ret |-> o.ret, filled |-> o.filled,
                     table |-> o.table, i |-> o.i,
                     null_deref |-> cur_dev = NULL]
    /\ listing' = <<>>
    /\ UNCHANGED <<pc, dirs>>

\* sqfs_ls up to the first sqfs_readdir: sqfs_opendir, then the set-up of
\* the stream from the inode and the header sqfs_opendir resolved.
sqfs_ls_open(filename, fail_at, junk, intact) ==
    /\ pc = "idle"
    /\ \E o \in {opendir(cur_dev, filename, 1, fail_at, junk)},
          img \in {DiskOf(cur_dev)} :
       \E h \in {HeapAfterOpendir(o)} :
          /\ cur_dev' = o.cur_dev
          /\ IF o.ret # 0
             THEN /\ pc' = "idle"
                  /\ heap' = h
                  /\ dirs' = NoStream
                  /\ listing' = <<>>
                  /\ res' = [op |-> "ls", path |-> filename, dev |-> cur_dev,
                             fail_at |-> fail_at, opendir_ret |-> o.ret,
                             ret |-> CMD_RET_FAILURE, done |-> TRUE,
                             dent |-> NoDirent, junk |-> junk, size_left |-> 0,
                             null_deref |-> cur_dev = NULL]
             ELSE /\ intact \in IntactChoices(h)
                  /\ \E ino \in {IF intact
                                    THEN DerefInode(img.inode_table, o.i, junk)
                                    ELSE Inode(junk, junk)},
                        hdr \in {IF intact
                                    THEN ReadHeader(img.dir_table, o.table, junk)
                                    ELSE JunkHeader(junk)} :
                        dirs' = [table |-> o.table,
                                 size |-> IF sqfs_is_dir(ino) THEN ino.file_size
                                          ELSE junk,
                                 entry_count |-> hdr.count + 1,
                                 dir_header |-> o.table,
                                 entry |-> o.table + SQFS_DIR_HEADER_SIZE,
                                 i |-> o.i]
                  /\ pc' = "ls_loop"
                  /\ heap' = ReadTables(h, intact)
                  /\ listing' = <<>>
                  /\ res' = [op |-> "ls", path |-> filename, dev |-> cur_dev,
                             fail_at |-> fail_at, opendir_ret |-> o.ret,
                             ret |-> 0, done |-> FALSE, dent |-> NoDirent, size_left |-> 0,
                             junk |-> junk, null_deref |-> FALSE]

\* One turn of while (sqfs_readdir(dirsp, &dirs.dentp)) in sqfs_ls.
sqfs_ls_readdir(intact) ==
    /\ pc = "ls_loop"
    /\ intact \in IntactChoices(heap)
    /\ \E r \in {sqfs_readdir(DiskOf(cur_dev), dirs, res.dent, intact,
                                res.junk)} :
          /\ dirs' = r.dirs
          /\ res' = [res EXCEPT !.dent = r.dent]
          /\ IF r.ret # 0
             THEN /\ listing' = Append(listing, r.dent)
                  /\ pc' = "ls_loop"
             ELSE /\ listing' = listing
                  /\ pc' = "ls_close"
    /\ heap' = ReadTables(heap, intact)
    /\ UNCHANGED cur_dev

\* The end of sqfs_ls: sqfs_closedir(dirsp); return ret.  The stream is a
\* local of sqfs_ls.
sqfs_ls_close ==
    /\ pc = "ls_close"
    /\ heap' = closedir(heap)
    /\ res' = [res EXCEPT !.done = TRUE, !.size_left = dirs.size]
    /\ dirs' = NoStream
    /\ pc' = "idle"
    /\ UNCHANGED <<cur_dev, listing>>

-----------------------------------------------------------------------------
(* sqfs_read.  The macros of the driver's sqfs_utils.h on block size words, *)
(* superblock flags and fragment indexes; the data area of the image.       *)

SQFS_COMPRESSED_BLOCK(a) == (a \div UNCOMPRESSED_BIT) % 2 = 0
SQFS_BLOCK_SIZE(a) == a % UNCOMPRESSED_BIT
SQFS_COMPRESSED_DATA(flags) == (flags \div SQFS_UNCOMPRESSED_DATA) % 2 = 0
SQFS_MAX_ENTRIES == 512
SQFS_FRAGMENT_INDEX(a) == a \div SQFS_MAX_ENTRIES
SQFS_FRAGMENT_INDEX_OFFSET(a) == a % SQFS_MAX_ENTRIES

\* uncompress(dest, dest_len, source, len) on the len bytes at `at`: it
\* succeeds when a compressed block starts there and lies within len bytes.
sqfs_decompress(img, at, len) ==
    LET bs == {b \in img.blocks : b.at = at /\ b.comp /\ b.len <= len}
    IN IF img.compression # 1 \/ bs = {}
       THEN [ret |-> -EINVAL, bytes |-> <<>>]
       ELSE [ret |-> 0, bytes |-> (CHOOSE b \in bs : TRUE).bytes]

\* The byte at position pos of the device as the driver copies it: a byte
\* of a block stored as it is, or a byte that is no file content.
DiskByte(img, pos, junk) ==
    LET bs == {b \in img.blocks : ~b.comp /\ b.at <= pos /\ pos < b.at + b.len}
    IN IF bs = {} THEN junk
       ELSE LET b == CHOOSE x \in bs : TRUE IN b.bytes[pos - b.at + 1]

\* A buffer of n bytes that holds `bytes` at its start.
Pad(bytes, n, junk) ==
    [k \in 1..n |-> IF k <= Len(bytes) THEN bytes[k] ELSE junk]

\* The entry sqfs_frag_lookup leaves in *e when it returns early: frag_entry
\* is a local of sqfs_read that nothing has assigned, and holds what the
\* stack held, an entry an earlier call left there (the junk-th of the
\* image) or other bytes.
UninitFragEntry(img, junk) ==
    IF junk \in 1..Len(img.frag_entries) THEN img.frag_entries[junk]
    ELSE [start |-> junk, size |-> junk]

\* sqfs_frag_lookup returns bool: its return -1 and return -EINVAL are
\* true.  ok1, ok2: whether the reads of the superblock and of the fragment
\* index table succeed.
sqfs_frag_lookup(img, inode_fragment_index, ok1, ok2, junk) ==
    IF ~ok1
    THEN [comp |-> TRUE, e |-> UninitFragEntry(img, junk), dev_lost |-> TRUE]
    ELSE IF inode_fragment_index >= img.fragments \/ ~ok2
    THEN [comp |-> TRUE, e |-> UninitFragEntry(img, junk), dev_lost |-> FALSE]
    ELSE LET offset == SQFS_FRAGMENT_INDEX_OFFSET(inode_fragment_index)
             e == img.frag_entries[offset + 1]
         IN [comp |-> SQFS_COMPRESSED_BLOCK(e.size), e |-> e,
             dev_lost |-> FALSE]

\* The disk reads of a call of sqfs_read, in order: the superblock, the
\* four of sqfs_opendir, the two of sqfs_frag_lookup (fragmented files
\* only), the data blocks, the fragment block.
ReadReads == 9

Unset == -1

ReadResult(ret, actread, buf, dev_lost) ==
    [ret |-> ret, actread |-> actread, buf |-> buf, dev_lost |-> dev_lost]

RECURSIVE DecodedBlocks(_, _, _, _, _)
\* datablocks[j..] after the decompression loop; at is the position of the
\* source of block j.
DecodedBlocks(img, blk_sizes, j, at, junk) ==
    IF j > Len(blk_sizes) THEN [ret |-> 0, bytes |-> <<>>]
    ELSE LET d == sqfs_decompress(img, at, blk_sizes[j])
             rest == DecodedBlocks(img, blk_sizes, j + 1, at + blk_sizes[j],
                                   junk)
         IN IF d.ret # 0 THEN [ret |-> d.ret, bytes |-> <<>>]
            ELSE IF rest.ret # 0 THEN rest
            ELSE [ret |-> 0,
                  bytes |-> Pad(d.bytes, img.block_size, junk) \o rest.bytes]

\* sqfs_read from the switch on the inode type to its end.  ino is the
\* inode found for the file, actread0 what *actread held at the call, buf
\* the bytes written, by position in the caller's buffer.
read_file(dev, ino, offset, len, actread0, fail_at, junk) ==
    LET frag == SQFS_IS_FRAGMENTED(ino.fragment)
        size == IF len # 0 THEN len ELSE ino.file_size
        data_read == IF frag THEN 8 ELSE 6
        \* the copy loops: stream is what data_buffer or datablocks hold,
        \* n_data the bytes the loops over the data blocks copy, fdec the
        \* fragment block as sqfs_decompress leaves it
        Copy(img, fl, stream, n_data, fdec) ==
            LET w1 == [p \in offset..(offset + n_data - 1) |->
                          stream[p - offset + 1]]
                \* read_fragment:
                j0 == offset + n_data
                n_frag == IF j0 < size THEN size - j0 ELSE 0
                w2 == [p \in j0..(size - 1) |->
                          IF fl.comp
                          THEN (IF ino.offset + p < img.block_size
                                THEN Pad(fdec.bytes, img.block_size,
                                         junk)[ino.offset + p + 1]
                                ELSE junk)
                          ELSE DiskByte(img, fl.e.start + ino.offset + p,
                                        junk)]
            IN IF ~frag
               THEN ReadResult(CMD_RET_SUCCESS, n_data, w1, FALSE)
               ELSE IF disk_read(dev, 1, ReadOk(9, fail_at)) < 0
               THEN ReadResult(CMD_RET_FAILURE, n_data, w1, FALSE)
               ELSE IF fl.comp /\ fdec.ret # 0
               THEN ReadResult(CMD_RET_FAILURE, n_data, w1, FALSE)
               ELSE ReadResult(0, n_data + n_frag, w1 @@ w2, FALSE)
        Blocks(img, fl, datablk_count, dec) ==
            IF datablk_count > 0 /\ SQFS_COMPRESSED_DATA(img.flags)
               /\ dec.ret # 0
            THEN ReadResult(dec.ret, 0, <<>>, FALSE)
            ELSE Copy(img, fl,
                      IF SQFS_COMPRESSED_DATA(img.flags) THEN dec.bytes
                      ELSE [p \in 1..(datablk_count * img.block_size) |->
                               DiskByte(img, ino.start_block + p - 1, junk)],
                      Min(size, datablk_count * img.block_size),
                      sqfs_decompress(img, fl.e.start, fl.e.size))
        Looked(img, fl, datablk_count) ==
            IF len # 0 /\ len > ino.file_size
            THEN ReadResult(CMD_RET_FAILURE, actread0, <<>>, fl.dev_lost)
            \* start = finfo.start / cur_dev->blksz
            ELSE IF fl.dev_lost
            THEN ReadResult(-1, actread0, <<>>, TRUE)
            ELSE IF disk_read(dev, 1, ReadOk(data_read, fail_at)) < 0
            THEN ReadResult(-1, actread0, <<>>, FALSE)
            ELSE Blocks(img, fl, datablk_count,
                        DecodedBlocks(img,
                                      [i \in 1..datablk_count |->
                                          IF i <= Len(ino.block_list)
                                          THEN ino.block_list[i] ELSE junk],
                                      1, ino.start_block, junk))
        File(img) ==
            Looked(img,
                   IF frag
                   THEN sqfs_frag_lookup(img, ino.fragment, ReadOk(6, fail_at),
                                         ReadOk(7, fail_at), junk)
                   ELSE [comp |-> FALSE, e |-> [start |-> 0, size |-> junk],
                         dev_lost |-> FALSE],
                   IF frag THEN ino.file_size \div img.block_size
                   ELSE DIV_ROUND_UP(ino.file_size, img.block_size))
    IN IF ino.inode_type \notin {SQFS_REG_TYPE, SQFS_LREG_TYPE}
       THEN ReadResult(-EINVAL, actread0, <<>>, FALSE)
       ELSE File(DiskOf(dev))

\* dir and file as sqfs_read splits filename at its last '/'.
LastSlash(path) ==
    CHOOSE k \in 1..Len(path) :
        path[k] = SLASH /\ \A m \in (k + 1)..Len(path) : path[m] # SLASH

read_dir(filename) ==
    LET path_size == LastSlash(filename) - 1
    IN SubSeq(filename, 1, IF path_size = 0 THEN 1 ELSE path_size)

\* The outcomes of the lookup loop of sqfs_read other than an inode number.
LookupTrap == -2
LookupNotFound == -1

ReadPaths == {P_hello, P_a_b_cbin, P_data, P_nope, P_a}

\* sqfs_read up to the return of sqfs_opendir.
sqfs_read_open(filename, offset, len, fail_at, junk) ==
    /\ pc = "idle"
    /\ LET base == [op |-> "read", path |-> filename, dev |-> cur_dev,
                    offset |-> offset, len |-> len, fail_at |-> fail_at,
                    junk |-> junk, ret |-> 0, actread |-> Unset,
                    buf |-> <<>>, i_number |-> 0, crashed |-> FALSE,
                    done |-> TRUE, null_deref |-> cur_dev = NULL]
       IN IF disk_read(cur_dev, 1, ReadOk(1, fail_at)) # 1
          THEN /\ cur_dev' = NULL
               /\ res' = [base EXCEPT !.ret = -1]
               /\ pc' = "done"
               /\ UNCHANGED <<dirs, heap>>
          ELSE \E o \in {opendir(cur_dev, read_dir(filename), 2, fail_at,
                                  junk)} :
                  /\ cur_dev' = o.cur_dev
                  /\ IF o.ret # 0
                     THEN /\ res' = [base EXCEPT !.ret = CMD_RET_FAILURE]
                          /\ pc' = "done"
                          /\ heap' = HeapAfterOpendir(o)
                          /\ dirs' = dirs
                     ELSE /\ res' = [base EXCEPT !.done = FALSE]
                          /\ pc' = "read_lookup"
                          \* dirsp = NULL: dir_header = NULL, entry = NULL + 12,
                          \* entry_count = what lies at NULL, + 1; the size
                          \* from the inode sqfs_opendir resolved
                          /\ \E intact \in IntactChoices(HeapAfterOpendir(o)) :
                             \E ino \in {IF intact
                                         THEN DerefInode(
                                                  DiskOf(cur_dev).inode_table,
                                                  o.i, junk)
                                         ELSE Inode(junk, junk)} :
                                /\ heap' = ReadTables(HeapAfterOpendir(o),
                                                      intact)
                                /\ dirs' = [table |-> o.table,
                                            size |-> IF sqfs_is_dir(ino)
                                                     THEN ino.file_size
                                                     ELSE junk,
                                            entry_count |-> junk + 1,
                                            dir_header |-> NullPtr,
                                            entry |-> NullPtr,
                                            i |-> o.i]
    /\ listing' = <<>>

\* dirs.dir_header->count through the NULL dir_header, then the loop
\* while (sqfs_readdir(dirs.fs_dirs, ...)) on the pointer found in the
\* unassigned member fs_dirs, then dirs.dir_header->inode_number: the call
\* traps, finds no file, or goes on with whatever inode number comes out.
sqfs_read_lookup(outcome) ==
    /\ pc = "read_lookup"
    /\ outcome \in {LookupTrap, LookupNotFound} \cup 0..DiskOf(cur_dev).inodes
    /\ IF outcome = LookupTrap
       THEN /\ res' = [res EXCEPT !.crashed = TRUE, !.done = TRUE]
            /\ pc' = "done"
       ELSE IF outcome = LookupNotFound
       THEN /\ res' = [res EXCEPT !.actread = 0, !.ret = CMD_RET_FAILURE,
                                  !.done = TRUE]
            /\ pc' = "done"
       ELSE /\ res' = [res EXCEPT !.i_number = outcome]
            /\ pc' = "read_data"
    /\ UNCHANGED <<cur_dev, dirs, heap, listing>>

\* sqfs_read from sqfs_find_inode on.  trap: whether a read through a NULL
\* pointer stops the program.
sqfs_read_data(intact, trap) ==
    /\ pc = "read_data"
    /\ intact \in IntactChoices(heap)
    /\ \E img \in {DiskOf(cur_dev)} :
       \E ptr \in {IF intact
                   THEN sqfs_find_inode(img.inode_table, res.i_number,
                                        img.inodes, img.block_size, res.junk,
                                        TRUE)
                   ELSE IF res.i_number = res.junk THEN 0 ELSE NullPtr} :
       \E ino \in {IF intact THEN DerefInode(img.inode_table, ptr, res.junk)
                   ELSE Inode(res.junk, res.junk)} :
       \E r \in {read_file(cur_dev, ino, res.offset, res.len, res.actread,
                           res.fail_at, res.junk)} :
          IF (ptr = NullPtr \/ r.dev_lost) /\ trap
          THEN /\ res' = [res EXCEPT !.crashed = TRUE, !.done = TRUE]
               /\ cur_dev' = IF ptr # NullPtr THEN NULL ELSE cur_dev
          ELSE /\ res' = [res EXCEPT !.ret = r.ret, !.actread = r.actread,
                                     !.buf = r.buf, !.done = TRUE]
               /\ cur_dev' = IF r.dev_lost THEN NULL ELSE cur_dev
    /\ heap' = ReadTables(heap, intact)
    /\ pc' = "done"
    /\ UNCHANGED <<dirs, listing>>

\* sqfs_size: return 0.  *size is left as the caller had it.
sqfs_size(filename) ==
    /\ pc = "idle"
    /\ res' = [op |-> "size", path |-> filename, dev |-> cur_dev, ret |-> 0,
               size |-> Unset]
    /\ pc' = "done"
    /\ UNCHANGED <<cur_dev, dirs, heap, listing>>

Init ==
    /\ cur_dev = NULL
    /\ pc = "idle"
    /\ res = [op |-> "none"]
    /\ dirs = NoStream
    /\ heap = NoHeap
    /\ listing = <<>>

Next ==
    \/ \E d \in Devices, f \in FailPoints(ProbeReads) : sqfs_probe(d, f)
    \/ \E p \in DirPaths, f \in FailPoints(OpendirReads), j \in JunkWords :
           sqfs_opendir(p, f, j)
    \/ \E p \in DirPaths, f \in FailPoints(OpendirReads), j \in JunkWords, b \in BOOLEAN :
           sqfs_ls_open(p, f, j, b)
    \/ \E b \in BOOLEAN : sqfs_ls_readdir(b)
    \/ sqfs_ls_close

Spec == Init /\ [][Next]_vars

-----------------------------------------------------------------------------
(* sqfs_find_inode on its own: the walk over every small well-formed inode  *)
(* table.  The state holds the table (res.table) and the last call.         *)

\* A name of size + 1 bytes behind a 12-byte directory index.
DirIndex(size) == [size |-> size, name |-> JunkName(size + 1)]

\* The block list a regular inode of that size carries in an image of
\* block size bs: one u32 per full block, and one for the tail unless the
\* tail lies in a fragment.
BlockListOf(size, frag, bs) ==
    [b \in 1..(IF frag = NO_FRAGMENT THEN DIV_ROUND_UP(size, bs)
               ELSE size \div bs) |-> bs]

\* Well-formed inodes of number n, of each of the 14 types.
WellFormedInodes(n, bs) ==
    {Inode(t, n) : t \in {SQFS_DIR_TYPE, SQFS_BLKDEV_TYPE, SQFS_CHRDEV_TYPE,
                          SQFS_FIFO_TYPE, SQFS_SOCKET_TYPE, SQFS_LBLKDEV_TYPE,
                          SQFS_LCHRDEV_TYPE, SQFS_LFIFO_TYPE,
                          SQFS_LSOCKET_TYPE}}
    \cup {[Inode(t, n) EXCEPT !.file_size = bs + 1, !.fragment = f,
                              !.block_list = BlockListOf(bs + 1, f, bs)] :
             t \in {SQFS_REG_TYPE, SQFS_LREG_TYPE}, f \in {NO_FRAGMENT, 0}}
    \cup {[Inode(t, n) EXCEPT !.symlink_size = 3] :
             t \in {SQFS_SYMLINK_TYPE, SQFS_LSYMLINK_TYPE}}
    \cup {[Inode(SQFS_LDIR_TYPE, n) EXCEPT !.file_size = 3],
          [Inode(SQFS_LDIR_TYPE, n) EXCEPT
              !.i_count = 1, !.index = <<DirIndex(1), DirIndex(1)>>]}

Perms(n) == {f \in [1..n -> 1..n] : \A a, b \in 1..n : f[a] = f[b] => a = b}

\* The tables of n well-formed inodes numbered 1..n in any order.
WellFormedTables(n, bs) ==
    UNION {{t \in [1..n -> UNION {WellFormedInodes(k, bs) : k \in 1..n}] :
               \A k \in 1..n : t[k].inode_number = f[k]} : f \in Perms(n)}

FindInit ==
    /\ cur_dev = NULL
    /\ pc = "find"
    /\ dirs = NoStream
    /\ heap = NoHeap
    /\ listing = <<>>
    /\ \E n \in 1..MaxInodes :
          \E t \in WellFormedTables(n, ImageMmc0.block_size) :
             res = [op |-> "table", table |-> t, inode_number |-> 0,
                    ret |-> NullPtr]

\* sqfs_find_inode(inode_table, inode_number, sblk->inodes, sblk->block_size)
find_inode(inode_number, junk, slack) ==
    /\ pc = "find"
    /\ inode_number \in 1..Len(res.table)
    /\ res' = [res EXCEPT
                  !.op = "find",
                  !.inode_number = inode_number,
                  !.ret = sqfs_find_inode(InodeTable(res.table), inode_number,
                                          Len(res.table),
                                          ImageMmc0.block_size, junk, slack)]
    /\ UNCHANGED <<cur_dev, pc, dirs, heap, listing>>

FindNext ==
    \E n \in 1..MaxInodes, j \in JunkWords, slack \in BOOLEAN :
        find_inode(n, j, slack)

SpecFind == FindInit /\ [][FindNext]_vars

-----------------------------------------------------------------------------
(* sqfs_read and sqfs_size: a probe of a device, then one call.             *)

ReadDevices == {"mmc0", "mmc2", "mmc3", "mmc4", "usb1"}

ReadOffsets == {0, MaxOffset}

ReadLens ==
    {0, MaxLen}
    \cup {MainLayout[k].file_size :
             k \in {n \in 1..Len(MainLayout) :
                       MainLayout[n].inode_type = SQFS_REG_TYPE}}

LookupOutcomes == {LookupTrap, LookupNotFound} \cup 0..ImageMmc0.inodes

ReadNext ==
    \/ \E d \in ReadDevices, f \in FailPoints(ProbeReads) : sqfs_probe(d, f)
    \/ \E p \in ReadPaths, off \in ReadOffsets, len \in ReadLens,
          f \in FailPoints(ReadReads), j \in JunkWords :
           sqfs_read_open(p, off, len, f, j)
    \/ \E o \in LookupOutcomes : sqfs_read_lookup(o)
    \/ \E b \in BOOLEAN, t \in BOOLEAN : sqfs_read_data(b, t)
    \/ \E p \in ReadPaths : sqfs_size(p)

SpecRead == Init /\ [][ReadNext]_vars

-----------------------------------------------------------------------------
(* sqfs_readdir on its own: one call on the stream of a live directory      *)
(* table that holds one listing of one entry, for every length of the       *)
(* entry's name up to MaxNameLen.                                           *)

\* The largest name_size + 1 of the entry.
MaxNameLen == 258

\* char name[256] of the struct fs_dirent that dentp points to.
FS_DIRENT_NAME_SIZE == 256

NameOfLen(n) == [k \in 1..n |-> "n"]

\* The tables of a directory with one regular file named name.
OneEntryTables(name) ==
    [inode_table |-> InodeTable(<<RegInode(1, 0, 0, NO_FRAGMENT, 0, <<>>)>>),
     dir_table |-> DirTable(<< << Chunk(0, 1, <<Entry(0, 0, SQFS_REG_TYPE,
                                                      name)>>) >> >>)]

\* The positions of (*dentp)->name that sqfs_readdir stores to:
\* strncpy(name, entry->name, name_size + 1), then
\* name[name_size + 1] = '\0'.
dent_name_stores(entry) == 0..Len(entry.name)

ReaddirInit ==
    /\ cur_dev = NULL
    /\ pc = "readdir"
    /\ heap = NoHeap
    /\ listing = <<>>
    /\ \E n \in 1..MaxNameLen :
          /\ res = [op |-> "entry", name |-> NameOfLen(n), ret |-> 0,
                    dent |-> NoDirent, stored |-> {}]
          /\ dirs = [table |-> 0,
                     size |-> SQFS_EMPTY_FILE_SIZE + SQFS_DIR_HEADER_SIZE
                              + SQFS_ENTRY_BASE_LENGTH + n,
                     entry_count |-> 1, dir_header |-> 0,
                     entry |-> SQFS_DIR_HEADER_SIZE, i |-> NullPtr]

\* sqfs_readdir(fs_dirs, &dentp) on that stream.
readdir_call ==
    /\ pc = "readdir"
    /\ res.op = "entry"
    /\ \E img \in {OneEntryTables(res.name)} :
       \E r \in {sqfs_readdir(img, dirs, res.dent, TRUE, 0)} :
          /\ dirs' = r.dirs
          /\ res' = [res EXCEPT
                        !.op = "readdir", !.ret = r.ret, !.dent = r.dent,
                        !.stored = IF r.dirs = dirs THEN {}
                                   ELSE dent_name_stores(
                                            ReadEntry(img.dir_table,
                                                      dirs.entry, 0))]
    /\ UNCHANGED <<cur_dev, pc, heap, listing>>

ReaddirNext == readdir_call

SpecReaddir == ReaddirInit /\ [][ReaddirNext]_vars

-----------------------------------------------------------------------------
(* The scan of a table's metadata-block headers on its own: every table of  *)
(* up to MaxBlocks blocks, each of a small, the largest or a too large      *)
(* payload, with the end bound at the end of the last block or one byte     *)
(* before it.                                                               *)

MaxBlocks == 3

MetaSizes == {10, SQFS_METADATA_BLOCK_SIZE, SQFS_METADATA_BLOCK_SIZE + 1}

\* The bytes of the blocks meta: headers and payloads.
MetaBytes(meta) == MetaPos(meta, Len(meta) + 1)

\* sqfs_opendir on one table: the header of the first block, then the
\* count of blocks.
scan_table(meta, table_size, junk) ==
    IF sqfs_read_metablock(meta, 0, junk).ret # 0
    THEN [ret |-> -EINVAL, count |-> 0]
    ELSE (LET Counted(metablks_count) ==
                  IF metablks_count < 1
                  THEN [ret |-> -EINVAL, count |-> metablks_count]
                  ELSE [ret |-> 0, count |-> metablks_count]
          IN Counted(count_metablks(meta, table_size, junk)))

ScanInit ==
    /\ cur_dev = NULL
    /\ pc = "scan"
    /\ dirs = NoStream
    /\ heap = NoHeap
    /\ listing = <<>>
    /\ \E n \in 1..MaxBlocks :
       \E sizes \in [1..n -> MetaSizes], short \in {0, 1} :
          res = [op |-> "table",
                 meta |-> [j \in 1..n |-> [comp |-> TRUE, size |-> sizes[j]]],
                 table_size |-> MetaPos([j \in 1..n |->
                                            [comp |-> TRUE,
                                             size |-> sizes[j]]], n + 1)
                                - short,
                 ret |-> 0, count |-> 0]

scan_call ==
    /\ pc = "scan"
    /\ res.op = "table"
    /\ \E r \in {scan_table(res.meta, res.table_size, 0)} :
          res' = [res EXCEPT !.op = "scan", !.ret = r.ret, !.count = r.count]
    /\ UNCHANGED <<cur_dev, pc, dirs, heap, listing>>

ScanNext == scan_call

SpecScan == ScanInit /\ [][ScanNext]_vars

-----------------------------------------------------------------------------
(* The number of block-list entries of a regular file, with the widths of   *)
(* the C types.  The integers of the checker stop at 2^31 - 1, so a file    *)
(* size is held as [hi, lo], the number hi * 4096 + lo with lo < 4096, and  *)
(* a block size as `pages`, a power of two, with                            *)
(* block_size = pages * 4096.  Sizes are drawn below 2^42, where sums in a  *)
(* 64-bit type do not wrap and every count fits an int.                     *)

MinBlockSize == 4096

\* block sizes of 4 KiB, 128 KiB and 1 MiB
BlockPages == {1, 32, 256}

Size(hi, lo) == [hi |-> hi, lo |-> lo]

\* n / d on unsigned operands
SizeDiv(size, pages) == size.hi \div pages

\* The least count of blocks that hold n bytes.
SizeDivUp(size, pages) ==
    size.hi \div pages
    + (IF size.hi % pages # 0 \/ size.lo # 0 THEN 1 ELSE 0)

\* DIV_ROUND_UP(n, d) == (((n) + (d) - 1) / (d)), the sum in an unsigned
\* type of `width` bits.
DivRoundUpIn(width, size, pages) ==
    LET sum_hi == IF size.lo >= 1 THEN size.hi + pages
                  ELSE size.hi + pages - 1
    IN (IF width = 32 THEN sum_hi % 1048576 ELSE sum_hi) \div pages

\* The value of n in an unsigned type of `width` bits.
Truncated(width, size) ==
    IF width = 32 THEN Size(size.hi % 1048576, size.lo) ELSE size

RECURSIVE Log2(_)
Log2(x) == IF x <= 1 THEN 0 ELSE 1 + Log2(x \div 2)

\* (float)n: n rounded to 24 significant bits, ties to even.  With
\* k = Log2(hi) the last kept bit weighs 2^(k - 11).
ToFloat(size) ==
    LET k == Log2(size.hi)
        RoundLo(u) ==
            LET base == size.lo \div u
                rem == size.lo % u
                odd == IF u = MinBlockSize THEN size.hi % 2 = 1
                       ELSE base % 2 = 1
                up == 2 * rem > u \/ (2 * rem = u /\ odd)
                lo == (base + (IF up THEN 1 ELSE 0)) * u
            IN IF lo = MinBlockSize THEN Size(size.hi + 1, 0)
               ELSE Size(size.hi, lo)
        RoundHi(uh) ==
            LET base == size.hi \div uh
                rem == size.hi % uh
                up == \/ 2 * rem > uh
                      \/ 2 * rem = uh /\ (size.lo > 0 \/ base % 2 = 1)
            IN Size((base + (IF up THEN 1 ELSE 0)) * uh, 0)
    IN IF k <= 11 THEN size
       ELSE IF k <= 23 THEN RoundLo(2 ^ (k - 11))
       ELSE RoundHi(2 ^ (k - 23))

\* IS_FRAGMENTED(A) of the host tool
IS_FRAGMENTED(v) == v # NO_FRAGMENT

\* blk_list_size in sqfs_find_inode of the driver: reg->file_size and
\* block_size are 32 bits wide, lreg->file_size 64.
blk_list_size(inode_type, fragment, size, pages) ==
    IF inode_type = SQFS_REG_TYPE
    THEN (IF SQFS_IS_FRAGMENTED(fragment) THEN SizeDiv(size, pages)
          ELSE DivRoundUpIn(32, size, pages))
    ELSE (IF fragment = NO_FRAGMENT THEN DivRoundUpIn(64, size, pages)
          ELSE SizeDiv(size, pages))

\* block_list_size in sqfs_find_inode of the host tool:
\* ceil((float)file_size / block_size); the division by a power of two is
\* exact.
block_list_size(inode_type, fragment, size, pages) ==
    IF inode_type = SQFS_REG_TYPE
    THEN (IF IS_FRAGMENTED(fragment) THEN SizeDiv(size, pages)
          ELSE SizeDivUp(ToFloat(size), pages))
    ELSE (IF fragment = NO_FRAGMENT THEN SizeDivUp(ToFloat(size), pages)
          ELSE SizeDiv(size, pages))

\* datablk_count in sqfs_read: finfo.size is a size_t, of size_t_bits bits.
datablk_count(fragment, size, pages, size_t_bits) ==
    IF SQFS_IS_FRAGMENTED(fragment)
    THEN SizeDiv(Truncated(size_t_bits, size), pages)
    ELSE DivRoundUpIn(size_t_bits, Truncated(size_t_bits, size), pages)

\* File sizes around the powers of two where the widths show.
SizeHi32 == {0, 1, 255, 256, 4095, 4096, 4097, 2 ^ 20 - 256, 2 ^ 20 - 1}
SizeHi64 == SizeHi32 \cup {2 ^ 20, 2 ^ 24, 2 ^ 24 + 1, 2 ^ 30 - 1}
SizeLo == {0, 1, 2048, 4095}

BlkInit ==
    /\ cur_dev = NULL
    /\ pc = "blocks"
    /\ dirs = NoStream
    /\ heap = NoHeap
    /\ listing = <<>>
    /\ \E t \in {SQFS_REG_TYPE, SQFS_LREG_TYPE}, f \in {0, NO_FRAGMENT},
          lo \in SizeLo, p \in BlockPages :
       \E hi \in IF t = SQFS_REG_TYPE THEN SizeHi32 ELSE SizeHi64 :
          res = [op |-> "inode", inode_type |-> t, fragment |-> f,
                 file_size |-> Size(hi, lo), pages |-> p, count |-> 0]

\* The walk of the driver steps over the inode.
walk_blocks ==
    /\ pc = "blocks"
    /\ res.op = "inode"
    /\ res' = [res EXCEPT !.op = "walk",
                          !.count = blk_list_size(res.inode_type, res.fragment,
                                                  res.file_size, res.pages)]
    /\ UNCHANGED <<cur_dev, pc, dirs, heap, listing>>

\* The walk of the host tool steps over the inode.
host_blocks ==
    /\ pc = "blocks"
    /\ res.op = "inode"
    /\ res' = [res EXCEPT !.op = "host",
                          !.count = block_list_size(res.inode_type,
                                                    res.fragment,
                                                    res.file_size, res.pages)]
    /\ UNCHANGED <<cur_dev, pc, dirs, heap, listing>>

\* sqfs_read counts the data blocks of the inode.
read_blocks(size_t_bits) ==
    /\ pc = "blocks"
    /\ res.op = "inode"
    /\ res' = [res EXCEPT !.op = "read",
                          !.count = datablk_count(res.fragment, res.file_size,
                                                  res.pages, size_t_bits)]
    /\ UNCHANGED <<cur_dev, pc, dirs, heap, listing>>

BlkNext ==
    \/ walk_blocks
    \/ host_blocks
    \/ \E b \in {32, 64} : read_blocks(b)

SpecBlk == BlkInit /\ [][BlkNext]_vars

-----------------------------------------------------------------------------
(* The step of the walk over one inode: tables of a symbolic link or an     *)
(* extended directory, numbered 1, followed by a directory numbered 2, and  *)
(* the walk to inode 2.                                                     *)

MaxSymlinkSize == 5
MaxIndexCount == 1
MaxIndexSize == 3

StepInodes ==
    {[Inode(t, 1) EXCEPT !.symlink_size = s] :
        t \in {SQFS_SYMLINK_TYPE, SQFS_LSYMLINK_TYPE}, s \in 0..MaxSymlinkSize}
    \cup {Inode(SQFS_LDIR_TYPE, 1)}
    \cup UNION {{[Inode(SQFS_LDIR_TYPE, 1) EXCEPT
                     !.i_count = c,
                     !.index = [l \in 1..(c + 1) |-> DirIndex(sizes[l])]] :
                    sizes \in [1..(c + 1) -> 0..MaxIndexSize]} :
                c \in 1..MaxIndexCount}

StepInit ==
    /\ cur_dev = NULL
    /\ pc = "step"
    /\ dirs = NoStream
    /\ heap = NoHeap
    /\ listing = <<>>
    /\ \E ino \in StepInodes :
          res = [op |-> "table", table |-> <<ino, DirInode(2, 0, 0, 0)>>,
                 junk |-> 0, ret |-> NullPtr]

\* sqfs_find_inode(inode_table, 2, 2, block_size)
step_over(junk, slack) ==
    /\ pc = "step"
    /\ res.op = "table"
    /\ res' = [res EXCEPT
                  !.op = "find",
                  !.junk = junk,
                  !.ret = sqfs_find_inode(InodeTable(res.table), 2, 2,
                                          ImageMmc0.block_size, junk, slack)]
    /\ UNCHANGED <<cur_dev, pc, dirs, heap, listing>>

StepNext == \E j \in JunkWords, slack \in BOOLEAN : step_over(j, slack)

SpecStep == StepInit /\ [][StepNext]_vars

-----------------------------------------------------------------------------
(* sqfs_dir_offset on its own: a directory table of up to MaxBlocks         *)
(* metadata blocks of 10 or 20 payload bytes, the list of positions         *)
(* sqfs_opendir makes of it, and a directory inode whose start_block is a   *)
(* block position, the end of the table, or one byte past either.           *)

DirMetaSizes == {10, 20}

DirRefOffsets == {0, 5}

OffsetInit ==
    /\ cur_dev = NULL
    /\ pc = "dir_offset"
    /\ dirs = NoStream
    /\ heap = NoHeap
    /\ listing = <<>>
    /\ \E n \in 1..MaxBlocks, t \in {SQFS_DIR_TYPE, SQFS_LDIR_TYPE},
          o \in DirRefOffsets, past \in {0, 1} :
       \E sizes \in [1..n -> DirMetaSizes], k \in 1..(n + 1) :
          res = [op |-> "inode",
                 meta |-> [j \in 1..n |-> [comp |-> TRUE, size |-> sizes[j]]],
                 inode_type |-> t,
                 start_block |-> MetaPos([j \in 1..n |->
                                             [comp |-> TRUE,
                                              size |-> sizes[j]]], k) + past,
                 offset |-> o, m_list |-> <<>>, ret |-> 0]

\* The list of positions as sqfs_opendir makes it (count_metablks,
\* get_metadatablk_pos), then sqfs_dir_offset on the inode.
dir_offset_call ==
    /\ pc = "dir_offset"
    /\ res.op = "inode"
    /\ \E m_list \in {get_metadatablk_pos(
                          res.meta,
                          count_metablks(res.meta, MetaBytes(res.meta), 0),
                          0)} :
          res' = [res EXCEPT
                     !.op = "dir_offset",
                     !.m_list = m_list,
                     !.ret = sqfs_dir_offset(
                                 [Inode(res.inode_type, 1) EXCEPT
                                     !.start_block = res.start_block,
                                     !.offset = res.offset],
                                 m_list)]
    /\ UNCHANGED <<cur_dev, pc, dirs, heap, listing>>

OffsetNext == dir_offset_call

SpecOffset == OffsetInit /\ [][OffsetNext]_vars

-----------------------------------------------------------------------------
(* sqfs_opendir on a probed device that holds the first image or the image  *)
(* with signed inode distances: calls one after another.                    *)

DeltaDevices == {"mmc0", "mmc5"}

DeltaInit ==
    /\ cur_dev \in DeltaDevices
    /\ pc = "idle"
    /\ res = [op |-> "none"]
    /\ dirs = NoStream
    /\ heap = NoHeap
    /\ listing = <<>>

DeltaNext ==
    \E p \in DirPaths, f \in FailPoints(OpendirReads), j \in JunkWords :
        sqfs_opendir(p, f, j)

SpecDelta == DeltaInit /\ [][DeltaNext]_vars

-----------------------------------------------------------------------------
(* sqfs_readdir and the inode of the entry: an inode table of two metadata  *)
(* blocks, at positions 0 and 102 of the image, with a regular file at the  *)
(* same offset of each decoded block, and a listing of one entry that names *)
(* one of the two files.                                                    *)

MaxFileSize == 3

InodeBlockPos == <<0, 102>>

\* The inode numbered 1 + k is at byte o of decoded block k; the entry
\* names the file of block k.
TwoBlockTables(k, o, sizes) ==
    [inode_table |->
         [inodes |-> [n \in 1..2 |->
                         RegInode(n, sizes[n], 0, NO_FRAGMENT, 0, <<>>)],
          at |-> [p \in {o, SQFS_METADATA_BLOCK_SIZE + o} |->
                     RegInode(IF p = o THEN 1 ELSE 2,
                              sizes[IF p = o THEN 1 ELSE 2], 0, NO_FRAGMENT,
                              0, <<>>)]],
     dir_table |-> DirTable(<< << Chunk(InodeBlockPos[k + 1], 1 + k,
                                        <<Entry(o, 0, SQFS_REG_TYPE,
                                                N_data)>>) >> >>)]

EntryInit ==
    /\ cur_dev = NULL
    /\ pc = "entry_size"
    /\ heap = NoHeap
    /\ listing = <<>>
    /\ \E k \in {0, 1}, o \in {0, 32},
          sizes \in [1..2 -> 0..MaxFileSize] :
          /\ res = [op |-> "entry", block |-> k, offset |-> o,
                    sizes |-> sizes, ret |-> 0, dent |-> NoDirent]
          /\ dirs = [table |-> 0,
                     size |-> SQFS_EMPTY_FILE_SIZE + SQFS_DIR_HEADER_SIZE
                              + SQFS_ENTRY_BASE_LENGTH + Len(N_data),
                     entry_count |-> 1, dir_header |-> 0,
                     entry |-> SQFS_DIR_HEADER_SIZE, i |-> NullPtr]

\* sqfs_readdir(fs_dirs, &dentp) on that stream.
entry_size_call ==
    /\ pc = "entry_size"
    /\ res.op = "entry"
    /\ \E r \in {sqfs_readdir(TwoBlockTables(res.block, res.offset, res.sizes),
                              dirs, res.dent, TRUE, 0)} :
          /\ dirs' = r.dirs
          /\ res' = [res EXCEPT !.op = "readdir", !.ret = r.ret,
                                !.dent = r.dent]
    /\ UNCHANGED <<cur_dev, pc, heap, listing>>

EntryNext == entry_size_call

SpecEntry == EntryInit /\ [][EntryNext]_vars

-----------------------------------------------------------------------------
(* The decoding of the inode table in sqfs_opendir: the loop that inflates  *)
(* or copies each metadata block into inode_table.  A table is its headers  *)
(* ([comp, size]) and the decoded length of each block (out); the buffer is *)
(* the list of the copies made into it, [at, len, block], in the order they *)
(* were made.                                                               *)

\* Decoded lengths of the last block of a table; the blocks before it
\* decode to SQFS_METADATA_BLOCK_SIZE bytes.
LastLens == {10, SQFS_METADATA_BLOCK_SIZE}

\* What dest_len, which has no initialiser, may hold before the first
\* sqfs_decompress stores it.
DestLenJunk == {0, 10, SQFS_METADATA_BLOCK_SIZE}

RECURSIVE DecodeLoop(_, _, _, _, _, _)
DecodeLoop(meta, out, j, dest_offset, dest_len, copies) ==
    IF j >= Len(meta) THEN copies
    ELSE LET compressed == meta[j + 1].comp
             len == IF compressed THEN out[j + 1] ELSE dest_len
             copy == IF compressed
                     THEN [at |-> dest_offset, len |-> len, block |-> j]
                     ELSE [at |-> j * SQFS_METADATA_BLOCK_SIZE,
                           len |-> meta[j + 1].size, block |-> j]
         IN DecodeLoop(meta, out, j + 1, dest_offset + len, len,
                       Append(copies, copy))

DecodeInit ==
    /\ cur_dev = NULL
    /\ pc = "decode"
    /\ dirs = NoStream
    /\ heap = NoHeap
    /\ listing = <<>>
    /\ \E n \in 1..MaxBlocks :
       \E comp \in [1..n -> BOOLEAN], last \in LastLens, d \in DestLenJunk :
          LET out == [j \in 1..n |-> IF j = n THEN last
                                     ELSE SQFS_METADATA_BLOCK_SIZE]
          IN res = [op |-> "table",
                    meta |-> [j \in 1..n |->
                                 [comp |-> comp[j],
                                  size |-> IF comp[j] THEN out[j] \div 2
                                           ELSE out[j]]],
                    out |-> out, dest_len |-> d, copies |-> <<>>]

\* The loop for (j = 0; j < metablks_count; j++), metablks_count being
\* the number of blocks of the table.
decode_call ==
    /\ pc = "decode"
    /\ res.op = "table"
    /\ res' = [res EXCEPT !.op = "decoded",
                          !.copies = DecodeLoop(res.meta, res.out, 0, 0,
                                                res.dest_len, <<>>)]
    /\ UNCHANGED <<cur_dev, pc, dirs, heap, listing>>

DecodeNext == decode_call

SpecDecode == DecodeInit /\ [][DecodeNext]_vars

-----------------------------------------------------------------------------
(* The loop while (sqfs_readdir(dirsp, &dirs.dentp)) on a stream of any     *)
(* size over any content: the listings of the first image as decoded, or    *)
(* whatever bytes lie where the stream points (intact = FALSE).             *)

\* The turns of the loop are followed up to this number.
MaxTurns == 3

\* dirs.size as sqfs_ls stores it: the file_size of a directory, a u32
\* file_size of an extended directory converted to int, or what the field
\* held when the inode is of neither type.
LoopSizes ==
    {-INT_MAX - 1, -INT_MAX + 8, -1, 0, SQFS_EMPTY_FILE_SIZE,
     SQFS_DIR_HEADER_SIZE - 1, SQFS_DIR_HEADER_SIZE, 24, 53, INT_MAX}

LoopInit ==
    /\ cur_dev = NULL
    /\ pc = "readdir_loop"
    /\ heap = NoHeap
    /\ listing = <<>>
    /\ \E l \in 1..Len(ImageMmc0.dir_table.lists), size \in LoopSizes :
       \E table \in {ListingPos(ImageMmc0.dir_table.lists, l)} :
          /\ dirs = [table |-> table, size |-> size,
                     entry_count |->
                         ReadHeader(ImageMmc0.dir_table, table, 0).count + 1,
                     dir_header |-> table,
                     entry |-> table + SQFS_DIR_HEADER_SIZE, i |-> NullPtr]
          /\ res = [op |-> "start", turns |-> 0, before |-> size,
                    known |-> TRUE, ret |-> 1, dent |-> NoDirent]

\* One evaluation of the loop condition.  When a subtraction overflows the
\* call either goes on with the wrapped value or traps.
loop_turn(intact, junk) ==
    /\ pc = "readdir_loop"
    /\ res.turns < MaxTurns
    /\ \E r \in {sqfs_readdir(ImageMmc0, dirs, res.dent, intact, junk)},
          e \in {IF intact THEN ReadEntry(ImageMmc0.dir_table, dirs.entry, junk)
                 ELSE JunkEntry(junk)},
          trap \in BOOLEAN :
          /\ trap => r.overflow
          /\ dirs' = IF trap THEN dirs ELSE r.dirs
          /\ pc' = IF trap THEN "trapped"
                   ELSE IF r.ret # 0 THEN "readdir_loop" ELSE "loop_done"
          /\ res' = [op |-> IF trap THEN "trap" ELSE "turn",
                     turns |-> res.turns + 1, before |-> dirs.size,
                     known |-> KnownInodeType(e.type), ret |-> r.ret,
                     dent |-> r.dent]
    /\ UNCHANGED <<cur_dev, heap, listing>>

LoopNext == \E b \in BOOLEAN, j \in JunkWords : loop_turn(b, j)

SpecLoop == LoopInit /\ [][LoopNext]_vars

-----------------------------------------------------------------------------
(* sqfs_ls and sqfs_read side by side, each up to its first sqfs_readdir,   *)
(* on a device that sqfs_probe accepted.                                    *)

StartInit ==
    /\ cur_dev \in {"mmc0", "mmc1"}
    /\ pc = "idle"
    /\ res = [op |-> "none"]
    /\ dirs = NoStream
    /\ heap = NoHeap
    /\ listing = <<>>

StartNext ==
    \/ \E p \in DirPaths, f \in FailPoints(OpendirReads), j \in JunkWords,
          b \in BOOLEAN : sqfs_ls_open(p, f, j, b)
    \/ \E p \in ReadPaths, f \in FailPoints(ReadReads), j \in JunkWords :
           sqfs_read_open(p, 0, 0, f, j)

SpecStart == StartInit /\ [][StartNext]_vars

-----------------------------------------------------------------------------
(* The token list of sqfs_opendir on its own, for every absolute path over  *)
(* '/' and one letter up to MaxPathLen characters.  Slots of token_list are *)
(* numbered from 0.                                                         *)

MaxPathLen == 6

TokenPaths ==
    {p \in UNION {[1..n -> {SLASH, "a"}] : n \in 1..MaxPathLen} :
        p[1] = SLASH}

TokenInit ==
    /\ cur_dev = NULL
    /\ pc = "tokens"
    /\ dirs = NoStream
    /\ heap = NoHeap
    /\ listing = <<>>
    /\ \E p \in TokenPaths :
          res = [op |-> "path", path |-> p, token_count |-> 0, slots |-> 0,
                 stored |-> {}, freed |-> {}, crashed |-> FALSE]

\* From token_count = sqfs_count_tokens(path) to free(token_list).  When
\* strtok has no token left aux is NULL and strlen(aux) reads through it.
token_list_call ==
    /\ pc = "tokens"
    /\ res.op = "path"
    /\ LET token_count == opendir_token_count(res.path)
           tokens == Strtok(res.path, <<>>)
           filled == Min(token_count, Len(tokens))
       IN res' = [res EXCEPT
                     !.op = "tokens",
                     !.token_count = token_count,
                     !.slots = token_count,
                     !.stored = IF res.path = <<SLASH>> THEN {0}
                                ELSE 0..(filled - 1),
                     !.crashed = res.path # <<SLASH>> /\ filled < token_count,
                     !.freed = IF res.path # <<SLASH>> /\ filled < token_count
                               THEN {}
                               ELSE 0..(token_count - 1)]
    /\ UNCHANGED <<cur_dev, pc, dirs, heap, listing>>

TokenNext == token_list_call

SpecTokens == TokenInit /\ [][TokenNext]_vars

-----------------------------------------------------------------------------
(* C1: sqfs_probe returns 0 exactly when the read of block 0 succeeded and  *)
(* the superblock read holds the magic number 0x73717368; after a failed    *)
(* probe cur_dev is NULL, after a successful one it is the probed device.   *)
C1_ProbeIffMagic ==
    res.op = "probe" =>
        /\ (res.ret = 0) <=> (/\ res.fail_at > 1
                              /\ DiskOf(res.dev).s_magic = 1936814952)
        /\ res.ret # 0 => cur_dev = NULL
        /\ res.ret = 0 => cur_dev = res.dev

C1_Witness_Success == res.op = "probe" /\ res.ret = 0 /\ cur_dev = "mmc0"

-----------------------------------------------------------------------------
(* C2: for every table of well-formed inodes numbered 1..inodes, of any of  *)
(* the 14 types in any order, sqfs_find_inode(table, n, inodes, block_size) *)
(* returns, for every n in 1..inodes, the position of an inode whose        *)
(* inode_number is n.                                                       *)
C2_FindSucceeds ==
    res.op = "find" =>
        /\ res.ret # NullPtr
        /\ res.ret \in DOMAIN InodeTable(res.table).at
        /\ InodeTable(res.table).at[res.ret].inode_number = res.inode_number

\* The walk stepped over an extended directory with an index and found no
\* inode.
C2_Witness_LdirMiss ==
    /\ res.op = "find"
    /\ res.ret = NullPtr
    /\ res.inode_number = 2
    /\ res.table[1].inode_type = SQFS_LDIR_TYPE
    /\ res.table[1].i_count = 1
    /\ res.table[2].inode_number = 2

-----------------------------------------------------------------------------
(* What an image holds, read off its listings by inode number and name:     *)
(* the reference the path claims are stated against.                        *)

NotFound == [inode_type |-> 0, inode_number |-> 0]

RefInode(img, n) ==
    LET found == {k \in 1..Len(img.inode_table.inodes) :
                     img.inode_table.inodes[k].inode_number = n}
    IN IF found = {} THEN NotFound
       ELSE img.inode_table.inodes[CHOOSE k \in found : TRUE]

RefIsDir(ino) == ino.inode_type \in {SQFS_DIR_TYPE, SQFS_LDIR_TYPE}

\* The entries of a chunk, each with the number of the inode it names.
RefChunkEntries(c) ==
    [e \in 1..Len(c.entries) |->
        [name |-> c.entries[e].name, type |-> c.entries[e].type,
         inode_number |-> c.inode_number + c.entries[e].inode_offset]]

RECURSIVE RefChunks(_)
RefChunks(cs) ==
    IF cs = <<>> THEN <<>>
    ELSE RefChunkEntries(Head(cs)) \o RefChunks(Tail(cs))

\* The entries of directory ino, in on-disk order.
RefEntries(img, ino) ==
    LET lists == img.dir_table.lists
        ls == {l \in 1..Len(lists) : ListingPos(lists, l) = ino.offset}
    IN IF ~RefIsDir(ino) \/ ino.file_size <= SQFS_EMPTY_FILE_SIZE \/ ls = {}
       THEN <<>>
       ELSE RefChunks(lists[CHOOSE l \in ls : TRUE])

RECURSIVE RefResolve(_, _, _)
RefResolve(img, tokens, ino) ==
    IF tokens = <<>> THEN ino
    ELSE LET es == RefEntries(img, ino)
             hit == {e \in 1..Len(es) : es[e].name = Head(tokens)}
         IN IF hit = {} THEN NotFound
            ELSE RefResolve(img, Tail(tokens),
                            RefInode(img, es[CHOOSE e \in hit : TRUE].inode_number))

\* The inode path names in the image, or NotFound.
RefPath(img, path) ==
    RefResolve(img, Strtok(path, <<>>), RefInode(img, img.inodes))

\* A call on a probed device, none of whose disk reads failed.
CleanCall(r) ==
    /\ r.dev \in {"mmc0", "mmc1", "mmc2"}
    /\ r.fail_at > OpendirReads

NamesOf(es) == [k \in 1..Len(es) |-> es[k].name]

-----------------------------------------------------------------------------
(* C3: for every well-formed non-empty directory, the loop                  *)
(* while (sqfs_readdir(...)) of sqfs_ls yields every entry exactly once, in *)
(* on-disk order, header.count + 1 entries per chunk, and leaves            *)
(* dirs->size at 3 when it stops.                                           *)
C3_LsYieldsEachEntryOnce ==
    LET img == DiskOf(res.dev)
        d == RefPath(img, res.path)
    IN (/\ res.op = "ls"
        /\ res.done
        /\ CleanCall(res)
        /\ RefIsDir(d)
        /\ d.file_size > SQFS_EMPTY_FILE_SIZE)
       => /\ NamesOf(listing) = NamesOf(RefEntries(img, d))
          /\ res.size_left = SQFS_EMPTY_FILE_SIZE

\* The listing of the two-chunk root directory came out short.
C3_Witness_ShortListing ==
    /\ res.op = "ls"
    /\ res.done
    /\ res.dev = "mmc1"
    /\ res.path = P_root
    /\ res.opendir_ret = 0
    /\ Len(listing) < 4

-----------------------------------------------------------------------------
(* C6: path resolution fails with a not-found error whenever a component    *)
(* of the path matches no entry of the directory the preceding components   *)
(* lead to, at every position of the path.                                  *)
C6_MissingComponentFails ==
    (/\ res.op = "opendir"
     /\ CleanCall(res)
     /\ RefPath(DiskOf(res.dev), res.path) = NotFound)
    => /\ res.ret = -EINVAL
       /\ ~res.filled

\* The miss after a match went through.
C6_Witness_MissAfterMatch ==
    /\ res.op = "opendir"
    /\ res.path = P_a_nope
    /\ res.dev = "mmc0"
    /\ res.ret = 0

-----------------------------------------------------------------------------
(* C7: sqfs_opendir of a path that ends with '/' and whose last component   *)
(* is not a directory returns an error and fills in no directory stream.    *)
C7_TrailingSlashOnFileIsNotDir ==
    LET d == RefPath(DiskOf(res.dev), res.path)
    IN (/\ res.op = "opendir"
        /\ CleanCall(res)
        /\ res.path[Len(res.path)] = SLASH
        /\ d # NotFound
        /\ ~RefIsDir(d))
       => /\ res.ret # 0
          /\ ~res.filled

C7_Witness_FileOpened ==
    /\ res.op = "opendir"
    /\ res.path = P_hello_sl
    /\ res.dev = "mmc0"
    /\ res.ret = 0
    /\ res.filled

-----------------------------------------------------------------------------
(* C8: for an empty directory (file_size 3) sqfs_opendir succeeds, the      *)
(* enumeration yields no entry and sqfs_ls returns success.                 *)
C8_EmptyDirOpensAndLists ==
    LET d == RefPath(DiskOf(res.dev), res.path)
    IN (/\ res.op \in {"opendir", "ls"}
        /\ CleanCall(res)
        /\ RefIsDir(d)
        /\ d.file_size = SQFS_EMPTY_FILE_SIZE)
       => /\ res.op = "opendir" => res.ret = 0
          /\ res.op = "ls" => (res.done => /\ res.ret = CMD_RET_SUCCESS
                                           /\ listing = <<>>)

C8_Witness_LsFails ==
    /\ res.op = "ls"
    /\ res.done
    /\ res.path = P_empty_sl
    /\ res.dev = "mmc0"
    /\ res.fail_at > OpendirReads
    /\ res.ret = CMD_RET_FAILURE

-----------------------------------------------------------------------------
(* C10: after a successful sqfs_opendir both decoded tables stay allocated  *)
(* until sqfs_closedir: no sqfs_readdir in between reads a freed table, and *)
(* over opendir..closedir each table is freed exactly once.                 *)
C10_TablesLiveUntilClosedir ==
    /\ pc = "ls_loop" => heap.inode_table = "live" /\ heap.dir_table = "live"
    /\ heap.stale_reads = 0
    /\ heap.inode_table_frees <= 1
    /\ heap.dir_table_frees <= 1
    /\ (res.op = "ls" /\ res.done /\ res.opendir_ret = 0)
       => heap.inode_table_frees = 1 /\ heap.dir_table_frees = 1

\* A listing ran to its end on freed tables, which were then freed again.
C10_Witness_DoubleFree ==
    /\ res.op = "ls"
    /\ res.done
    /\ res.opendir_ret = 0
    /\ heap.stale_reads > 0
    /\ heap.inode_table_frees = 2
    /\ heap.dir_table_frees = 2

-----------------------------------------------------------------------------
(* The content of the regular files of the images, by inode number, and     *)
(* what a call wrote into the caller's buffer, in the order of the          *)
(* positions written.                                                       *)

RefContent(ino) ==
    CASE ino.inode_number = 1 -> HelloBytes
      [] ino.inode_number = 3 -> CbinBytes
      [] ino.inode_number = 6 -> DataBytes
      [] OTHER -> <<>>

RefIsReg(ino) == ino.inode_type \in {SQFS_REG_TYPE, SQFS_LREG_TYPE}

RECURSIVE Written(_)
Written(buf) ==
    IF DOMAIN buf = {} THEN <<>>
    ELSE LET p == CHOOSE q \in DOMAIN buf : \A o \in DOMAIN buf : q <= o
         IN <<buf[p]>> \o Written([o \in DOMAIN buf \ {p} |-> buf[o]])

\* A finished call of sqfs_read on a probed device whose reads all
\* succeeded.
CleanRead ==
    /\ res.op = "read"
    /\ res.done
    /\ res.dev \in {"mmc0", "mmc2"}
    /\ res.fail_at > ReadReads

-----------------------------------------------------------------------------
(* C4: a whole-file sqfs_read (offset 0, len 0 or len = file_size) of a     *)
(* regular file succeeds and reports *actread = file_size.                  *)
C4_WholeFileRead ==
    LET f == RefPath(DiskOf(res.dev), res.path)
    IN (/\ CleanRead
        /\ RefIsReg(f)
        /\ res.offset = 0
        /\ res.len \in {0, f.file_size})
       => /\ ~res.crashed
          /\ res.ret = 0
          /\ res.actread = f.file_size

\* The file is there and the call reports that it found none.
C4_Witness_FileNotFound ==
    /\ CleanRead
    /\ res.path = P_hello
    /\ res.offset = 0
    /\ res.len = 0
    /\ ~res.crashed
    /\ res.ret = CMD_RET_FAILURE
    /\ res.actread = 0

-----------------------------------------------------------------------------
(* C5: sqfs_read(f, buf, offset, len) with offset + len <= file_size        *)
(* delivers exactly the len bytes at positions offset .. offset + len - 1   *)
(* of the file.                                                             *)
C5_PartialRead ==
    LET f == RefPath(DiskOf(res.dev), res.path)
    IN (/\ CleanRead
        /\ RefIsReg(f)
        /\ res.len > 0
        /\ res.offset + res.len <= f.file_size)
       => /\ ~res.crashed
          /\ res.ret = 0
          /\ res.actread = res.len
          /\ Written(res.buf)
                 = SubSeq(RefContent(f), res.offset + 1, res.offset + res.len)

\* The lookup came out with the inode of hello.txt, the tables held their
\* content, and the call for "world" delivered nothing.
C5_Witness_NothingDelivered ==
    /\ CleanRead
    /\ res.path = P_hello
    /\ res.offset = 7
    /\ res.len = 5
    /\ res.i_number = 1
    /\ heap.intact
    /\ res.ret = 0
    /\ res.actread = 0
    /\ res.buf = <<>>

-----------------------------------------------------------------------------
(* C9: sqfs_size(path, &size) stores the file_size of the inode at path in  *)
(* *size, and never returns success with *size unset.                       *)
C9_SizeStoresFileSize ==
    LET f == RefPath(DiskOf(res.dev), res.path)
    IN (res.op = "size" /\ res.ret = 0)
       => /\ res.size # Unset
          /\ (res.dev \in {"mmc0", "mmc2"} /\ f # NotFound)
             => res.size = f.file_size

C9_Witness_SizeUnset ==
    /\ res.op = "size"
    /\ res.dev = "mmc0"
    /\ res.path = P_a_b_cbin
    /\ res.ret = 0
    /\ res.size = Unset

-----------------------------------------------------------------------------
(* C11: sqfs_read of a regular file whose fragment index is not 0xFFFFFFFF  *)
(* and is >= superblock.fragments returns an error and copies nothing: the  *)
(* out-of-range answer of sqfs_frag_lookup is never taken as "compressed"   *)
(* with a usable fragment entry.                                            *)
C11_FragIndexOutOfRangeFails ==
    LET img == DiskOf(res.dev)
        f == RefPath(img, res.path)
    IN (/\ res.op = "read"
        /\ res.done
        /\ res.dev \in {"mmc0", "mmc2", "mmc3"}
        /\ RefIsReg(f)
        /\ f.fragment # NO_FRAGMENT
        /\ f.fragment >= img.fragments
        /\ res.i_number = f.inode_number)
       => /\ ~res.crashed
          /\ res.ret # 0
          /\ res.buf = <<>>

\* The read of the file with fragment index 1 of 1 delivered the 13 bytes
\* of the fragment block and reported success.
C11_Witness_StaleEntryUsed ==
    /\ res.op = "read"
    /\ res.done
    /\ res.dev = "mmc3"
    /\ res.path = P_hello
    /\ res.i_number = 1
    /\ res.fail_at > ReadReads
    /\ res.ret = 0
    /\ res.actread = 13
    /\ Written(res.buf) = HelloBytes

-----------------------------------------------------------------------------
(* C12: on every return of sqfs_read with a nonzero result *actread has     *)
(* been set and equals the number of bytes the call stored into the         *)
(* caller's buffer (0 when it stored none).                                 *)
C12_ActreadSetOnError ==
    (/\ res.op = "read"
     /\ res.done
     /\ ~res.crashed
     /\ res.ret # 0)
    => /\ res.actread # Unset
       /\ res.actread = Cardinality(DOMAIN res.buf)

\* The read of the superblock failed on a probed device and the call
\* returned -1 without a store to *actread.
C12_Witness_ReadErrorActreadUnset ==
    /\ res.op = "read"
    /\ res.done
    /\ res.dev = "mmc0"
    /\ res.fail_at = 1
    /\ res.ret = -1
    /\ res.actread = Unset

-----------------------------------------------------------------------------
(* C13: sqfs_readdir never stores past the 256 bytes of the name buffer of  *)
(* the fs_dirent: an entry whose name is longer than 256 bytes is rejected  *)
(* and not copied, and a name of exactly 256 bytes is copied without a      *)
(* store past the buffer.                                                   *)
C13_NameBoundEnforced ==
    res.op = "readdir" =>
        /\ \A k \in res.stored : k < FS_DIRENT_NAME_SIZE
        /\ Len(res.name) > FS_DIRENT_NAME_SIZE
              => res.ret = 0 /\ res.stored = {} /\ res.dent = NoDirent
        /\ Len(res.name) <= FS_DIRENT_NAME_SIZE => res.dent.name = res.name

\* An entry with a name of 257 bytes was copied whole, and the terminator
\* stored behind it.
C13_Witness_LongNameCopied ==
    /\ res.op = "readdir"
    /\ Len(res.name) = 257
    /\ res.dent.name = res.name
    /\ 257 \in res.stored

-----------------------------------------------------------------------------
(* C14: the scan of a table's metadata-block headers in sqfs_opendir fails  *)
(* if a header announces a payload of more than 8192 bytes or if a block,   *)
(* header and payload, extends past the end bound of the table; when it     *)
(* succeeds, count_metablks is the number of blocks that lie wholly inside  *)
(* the table.                                                               *)
C14_ScanRefusesOversizeAndOverrun ==
    res.op = "scan" =>
        LET inside == {j \in 1..Len(res.meta) :
                          MetaPos(res.meta, j + 1) <= res.table_size}
            oversize == \E j \in 1..Len(res.meta) :
                            res.meta[j].size > SQFS_METADATA_BLOCK_SIZE
            overrun == MetaBytes(res.meta) > res.table_size
        IN /\ (oversize \/ overrun) => res.ret # 0
           /\ res.ret = 0 => res.count = Cardinality(inside)

\* A table whose only block ends one byte past the end bound was scanned
\* without an error and counted as one block.
C14_Witness_OverrunCounted ==
    /\ res.op = "scan"
    /\ Len(res.meta) = 1
    /\ res.meta[1].size = 10
    /\ res.table_size = 11
    /\ res.ret = 0
    /\ res.count = 1

-----------------------------------------------------------------------------
(* C15: when sqfs_find_inode fails during path resolution (unknown inode    *)
(* type, or inode number absent after the walk), sqfs_opendir and sqfs_read *)
(* return an error to their caller, and the missing inode is never used as  *)
(* an inode.                                                                *)

\* The walk to the root inode of an image fails.
RootMissing(img, junk) ==
    sqfs_find_inode(img.inode_table, img.inodes, img.inodes, img.block_size,
                    junk, TRUE) = NullPtr

\* The walk to the inode number the lookup of sqfs_read came to fails.
FileMissing(img, inode_number, junk) ==
    sqfs_find_inode(img.inode_table, inode_number, img.inodes, img.block_size,
                    junk, TRUE) = NullPtr

\* A read on an image whose root inode the walk does not find has ended at
\* sqfs_opendir with an error.
C15_OpenFailsWhenRootMissing ==
    (res.op = "read" /\ res.dev # NULL /\ RootMissing(DiskOf(res.dev), res.junk))
        => (pc = "done" /\ res.ret # 0 /\ ~res.crashed /\ res.i_number = 0)

\* The rest of sqfs_read, run on live tables for an inode number the walk
\* does not find, ends with an error.
C15_ReadFailsWhenInodeMissing ==
    [][(/\ pc = "read_data"
        /\ heap.intact
        /\ FileMissing(DiskOf(cur_dev), res.i_number, res.junk))
       => (res'.ret # 0 /\ ~res'.crashed)]_vars

C15_FindFailureSurfaces ==
    []C15_OpenFailsWhenRootMissing /\ C15_ReadFailsWhenInodeMissing

\* sqfs_opendir has returned 0 to sqfs_read on the image whose first inode
\* has an unknown type: the walk to the root inode returned NULL.
C15_Witness_OpenedWithoutRoot ==
    /\ res.op = "read"
    /\ res.dev = "mmc4"
    /\ RootMissing(ImageMmc4, res.junk)
    /\ pc = "read_lookup"
    /\ dirs.i = NullPtr

-----------------------------------------------------------------------------
(* C16: in the inode walk of the driver, in that of the host tool and in    *)
(* sqfs_read, the number of block-list entries of a regular or extended     *)
(* regular inode is floor(file_size / block_size) when the inode has a      *)
(* fragment and ceil(file_size / block_size) otherwise, for every file_size *)
(* of the width of the field and every block size from 4096 to 1 MiB.       *)
C16_BlockCountFloorOrCeil ==
    res.op \in {"walk", "host", "read"} =>
        res.count = IF res.fragment # NO_FRAGMENT
                    THEN SizeDiv(res.file_size, res.pages)
                    ELSE SizeDivUp(res.file_size, res.pages)

\* The walk of the driver stepped over a regular inode without fragment of
\* 2^32 - 1 bytes, with blocks of 4096 bytes, as over one without blocks.
C16_Witness_SumWrapped ==
    /\ res.op = "walk"
    /\ res.inode_type = SQFS_REG_TYPE
    /\ res.fragment = NO_FRAGMENT
    /\ res.file_size = Size(2 ^ 20 - 1, 4095)
    /\ res.pages = 1
    /\ res.count = 0

-----------------------------------------------------------------------------
(* C17: when the walk of sqfs_find_inode steps over a symbolic link or an   *)
(* extended symbolic link, it advances the table offset by 32 bytes plus    *)
(* symlink_size.                                                            *)
C17_SymlinkStep32 ==
    (/\ res.op = "find"
     /\ res.table[1].inode_type \in {SQFS_SYMLINK_TYPE, SQFS_LSYMLINK_TYPE})
        => res.ret = 32 + res.table[1].symlink_size

(* C17, amended: the walk advances by the 24 bytes of struct                *)
(* squashfs_symlink_inode plus symlink_size, and so comes to the inode that *)
(* follows the link.                                                        *)
C17_SymlinkStep24 ==
    (/\ res.op = "find"
     /\ res.table[1].inode_type \in {SQFS_SYMLINK_TYPE, SQFS_LSYMLINK_TYPE})
        => res.ret = 24 + res.table[1].symlink_size

\* The walk stepped over an extended symbolic link with a target of 3 bytes
\* and found the next inode at byte 27.
C17_Witness_SteppedOverLink ==
    /\ res.op = "find"
    /\ res.table[1].inode_type = SQFS_LSYMLINK_TYPE
    /\ res.table[1].symlink_size = 3
    /\ res.ret = 27

-----------------------------------------------------------------------------
(* C18: when the walk of sqfs_find_inode steps over an extended directory   *)
(* inode with i_count > 0, it advances by 40 + (i_count + 1) * 12 plus the  *)
(* sum of size + 1 over the index entries stored after the inode, each      *)
(* entry beginning after the 12-byte base and the size + 1 name bytes of    *)
(* the one before; with i_count = 0 it advances by 40.  (IndexBytes is the  *)
(* sum of 12 + size + 1 over the stored entries, i_count + 1 of them.)      *)
C18_LdirStepOverStoredIndexes ==
    (res.op = "find" /\ res.table[1].inode_type = SQFS_LDIR_TYPE)
        => res.ret = IF res.table[1].i_count = 0 THEN 40
                     ELSE 40 + IndexBytes(res.table[1].index)

\* The walk stepped over an extended directory with two index entries of
\* sizes 1 and 3 (70 bytes in all) and did not come to the inode behind it.
C18_Witness_LdirStepMissed ==
    /\ res.op = "find"
    /\ res.table[1].inode_type = SQFS_LDIR_TYPE
    /\ res.table[1].i_count = 1
    /\ res.table[1].index = <<DirIndex(1), DirIndex(3)>>
    /\ res.junk = 0
    /\ res.ret = NullPtr

-----------------------------------------------------------------------------
(* C19: sqfs_read handles each data block i by its own block_sizes[i]: the  *)
(* block is decompressed iff bit 24 of the entry is clear and copied as it  *)
(* is iff the bit is set, its length on disk is block_sizes[i] & 0xFFFFFF,  *)
(* and it is read at data_start plus the sum of the lengths on disk of the  *)
(* blocks before it.                                                        *)

\* The content of the data blocks i.. of a block list, block i stored at
\* `at`, each block taken by its own entry.
RECURSIVE RefBlocks(_, _, _, _)
RefBlocks(img, blk_sizes, i, at) ==
    IF i > Len(blk_sizes) THEN <<>>
    ELSE LET on_disk == SQFS_BLOCK_SIZE(blk_sizes[i])
         IN (IF SQFS_COMPRESSED_BLOCK(blk_sizes[i])
             THEN sqfs_decompress(img, at, on_disk).bytes
             ELSE [k \in 1..on_disk |-> DiskByte(img, at + k - 1, 0)])
            \o RefBlocks(img, blk_sizes, i + 1, at + on_disk)

\* The bytes `want` are in the caller's buffer from position 0 on.
Delivered(buf, want) ==
    \A p \in 1..Len(want) : (p - 1) \in DOMAIN buf /\ buf[p - 1] = want[p]

\* The rest of a whole-file sqfs_read whose disk reads all succeed, on live
\* tables and for the inode ino of a regular file, delivers the content of
\* the file's data blocks, each taken by its own entry.
C19_BlocksHandledPerEntry ==
    [][(/\ pc = "read_data"
        /\ heap'.intact
        /\ res.fail_at > ReadReads
        /\ res.offset = 0
        /\ res.len = 0
        /\ ~FileMissing(DiskOf(cur_dev), res.i_number, res.junk)
        /\ RefIsReg(RefInode(DiskOf(cur_dev), res.i_number)))
       => /\ ~res'.crashed
          /\ Delivered(res'.buf,
                       RefBlocks(DiskOf(cur_dev),
                                 RefInode(DiskOf(cur_dev),
                                          res.i_number).block_list,
                                 1,
                                 RefInode(DiskOf(cur_dev),
                                          res.i_number).start_block))]_vars

\* The read of data.bin, whose two blocks are stored as they are in an
\* image that otherwise compresses its data, came to the inode of the file
\* and failed in the decompressor.
C19_Witness_StoredBlockDecompressed ==
    /\ res.op = "read"
    /\ res.done
    /\ res.dev = "mmc0"
    /\ res.fail_at > ReadReads
    /\ res.path = P_data
    /\ res.i_number = 6
    /\ heap.intact
    /\ ~res.crashed
    /\ res.ret = -EINVAL
    /\ res.buf = <<>>

-----------------------------------------------------------------------------
(* C20: for a fragmented regular file with N >= 0 full data blocks, the     *)
(* byte sqfs_read delivers for file position p >= N * block_size is byte    *)
(* inode.offset + (p - N * block_size) of the decoded fragment block: the   *)
(* tail is bytes inode.offset .. inode.offset + (file_size mod block_size)  *)
(* - 1 of that block.                                                       *)

\* The decoded fragment block of the inode ino.
RefFragBlock(img, ino) ==
    LET e == img.frag_entries[SQFS_FRAGMENT_INDEX_OFFSET(ino.fragment) + 1]
    IN IF SQFS_COMPRESSED_BLOCK(e.size)
       THEN sqfs_decompress(img, e.start, SQFS_BLOCK_SIZE(e.size)).bytes
       ELSE [k \in 1..SQFS_BLOCK_SIZE(e.size) |->
                DiskByte(img, e.start + k - 1, 0)]

\* buf holds the tail of the file ino from the fragment block frag_block.
TailDelivered(buf, ino, block_size, frag_block) ==
    LET tail_start == (ino.file_size \div block_size) * block_size
    IN \A p \in tail_start..(ino.file_size - 1) :
          /\ p \in DOMAIN buf
          /\ buf[p] = frag_block[ino.offset + (p - tail_start) + 1]

\* The rest of a whole-file sqfs_read whose disk reads all succeed, on live
\* tables and for the inode of a fragmented regular file, delivers the
\* file's tail from the fragment block.
C20_FragmentTailDelivered ==
    [][(/\ pc = "read_data"
        /\ heap'.intact
        /\ res.fail_at > ReadReads
        /\ res.offset = 0
        /\ res.len = 0
        /\ ~FileMissing(DiskOf(cur_dev), res.i_number, res.junk)
        /\ RefIsReg(RefInode(DiskOf(cur_dev), res.i_number))
        /\ RefInode(DiskOf(cur_dev), res.i_number).fragment
               \in 0..(DiskOf(cur_dev).fragments - 1))
       => /\ ~res'.crashed
          /\ TailDelivered(res'.buf, RefInode(DiskOf(cur_dev), res.i_number),
                           DiskOf(cur_dev).block_size,
                           RefFragBlock(DiskOf(cur_dev),
                                        RefInode(DiskOf(cur_dev),
                                                 res.i_number)))]_vars

\* The read of c.bin (35 bytes: two blocks of 16 and a tail of 3 at byte 13
\* of the fragment block) returned 0 with *actread = 35 and, at position 32,
\* a byte that is not the 33rd of the file.
C20_Witness_TailFromBeyondBlock ==
    /\ res.op = "read"
    /\ res.done
    /\ res.dev = "mmc0"
    /\ res.fail_at > ReadReads
    /\ res.i_number = 3
    /\ res.offset = 0
    /\ res.len = 0
    /\ heap.intact
    /\ ~res.crashed
    /\ res.ret = 0
    /\ res.actread = 35
    /\ res.buf[31] = CbinBytes[32]
    /\ res.buf[32] = res.junk
    /\ res.buf[32] # CbinBytes[33]

-----------------------------------------------------------------------------
(* C21: for a directory table of m metadata blocks with headers at          *)
(* positions p_0 = 0 < p_1 < ... < p_(m-1), sqfs_dir_offset on a directory  *)
(* inode with start_block = p_k and offset o returns 8192 * k + o, inside   *)
(* the decoded table of m * 8192 bytes; for a start_block that is no block  *)
(* position it returns an error.                                            *)
C21_DirOffsetFlatIndex ==
    res.op = "dir_offset" =>
        LET m == Len(res.meta)
            at == {k \in 0..(m - 1) :
                      MetaPos(res.meta, k + 1) = res.start_block}
        IN IF at # {}
           THEN /\ res.ret = SQFS_METADATA_BLOCK_SIZE * (CHOOSE k \in at : TRUE)
                             + res.offset
                /\ res.ret < m * SQFS_METADATA_BLOCK_SIZE
           ELSE res.ret < 0

\* A start_block equal to the end of a table of one block (12 bytes) was
\* resolved to offset 8192, the end of the decoded table.
C21_Witness_EndOfTableResolved ==
    /\ res.op = "dir_offset"
    /\ Len(res.meta) = 1
    /\ res.meta[1].size = 10
    /\ res.start_block = 12
    /\ res.offset = 0
    /\ res.m_list = <<12>>
    /\ res.ret = SQFS_METADATA_BLOCK_SIZE

-----------------------------------------------------------------------------
(* C22: the inode number looked up for a matched directory entry is         *)
(* header.inode_number + entry.inode_offset with inode_offset taken as a    *)
(* signed 16-bit distance: for a stored inode_offset of 0xFFFF it is        *)
(* header.inode_number - 1.                                                 *)

\* The position in the inode table of the inode numbered n.
RefInodePtr(img, n) ==
    InodePos(img.inode_table.inodes,
             CHOOSE k \in 1..Len(img.inode_table.inodes) :
                 img.inode_table.inodes[k].inode_number = n)

\* sqfs_opendir of a path of one component that names an entry of the root
\* directory, all disk reads succeeding, comes to the inode numbered
\* header.inode_number + inode_offset.
C22_SignedInodeOffset ==
    LET img == DiskOf(res.dev)
        f == RefPath(img, res.path)
    IN (/\ res.op = "opendir"
        /\ res.dev \in DeltaDevices
        /\ res.fail_at > OpendirReads
        /\ Len(Strtok(res.path, <<>>)) = 1
        /\ res.path[Len(res.path)] # SLASH
        /\ f # NotFound)
       => IF RefIsDir(f) /\ f.file_size = SQFS_EMPTY_FILE_SIZE
          THEN res.ret = SQFS_EMPTY_DIR
          ELSE res.ret = 0 /\ res.i = RefInodePtr(img, f.inode_number)

\* The entry a of the root listing holds 0xFFFF under a header with inode
\* number 6: sqfs_opendir("/a") did not come to inode 5 but to no inode.
C22_Witness_DeltaTakenUnsigned ==
    /\ res.op = "opendir"
    /\ res.dev = "mmc5"
    /\ res.fail_at > OpendirReads
    /\ res.path = P_a
    /\ U16(ImageMmc5.dir_table.lists[3][1].entries[1].inode_offset) = 65535
    /\ res.ret = 0
    /\ res.i = NullPtr

-----------------------------------------------------------------------------
(* C23: for every regular-file entry that sqfs_readdir yields, the size     *)
(* reported is the file_size of the inode the entry refers to, the inode    *)
(* numbered header.inode_number + inode_offset at offset entry.offset of    *)
(* the inode-table metadata block header.start, whichever block that is.    *)
C23_EntrySizeOfNamedInode ==
    (res.op = "readdir" /\ res.ret # 0) =>
        LET img == TwoBlockTables(res.block, res.offset, res.sizes)
            hdr == img.dir_table.lists[1][1]
            e == hdr.entries[1]
        IN /\ res.dent.type = FS_DT_REG
           /\ res.dent.size
                  = RefInode(img, hdr.inode_number + e.inode_offset).file_size

\* The entry names the file of 3 bytes in the second block of the inode
\* table, and the size reported is that of the file at the same offset of
\* the first block, 1.
C23_Witness_SizeFromFirstBlock ==
    /\ res.op = "readdir"
    /\ res.ret # 0
    /\ res.block = 1
    /\ res.sizes = <<1, 3>>
    /\ res.dent.name = N_data
    /\ res.dent.size = 1

-----------------------------------------------------------------------------
(* C24: path resolution finds a component in whichever (header, entries)    *)
(* chunk of the directory holds it: for every directory of one or more      *)
(* chunks and every entry of it, resolving the directory's path extended by *)
(* the entry's name succeeds and selects the entry's inode.                 *)
C24_ComponentFoundInAnyChunk ==
    LET img == DiskOf(res.dev)
        f == RefPath(img, res.path)
    IN (/\ res.op = "opendir"
        /\ res.dev \in {"mmc0", "mmc1"}
        /\ res.fail_at > OpendirReads
        /\ res.path # P_root
        /\ res.path[Len(res.path)] # SLASH
        /\ f # NotFound)
       => IF RefIsDir(f) /\ f.file_size = SQFS_EMPTY_FILE_SIZE
          THEN res.ret = SQFS_EMPTY_DIR
          ELSE res.ret = 0 /\ res.i = RefInodePtr(img, f.inode_number)

\* The root listing of the second image is two chunks, hello.txt is an
\* entry of the second: sqfs_opendir("/hello.txt") did not find it.
C24_Witness_SecondChunkMissed ==
    /\ res.op = "opendir"
    /\ res.dev = "mmc1"
    /\ res.fail_at > OpendirReads
    /\ res.path = P_hello
    /\ Len(ImageMmc1.dir_table.lists[3]) = 2
    /\ \E e \in 1..2 : ImageMmc1.dir_table.lists[3][2].entries[e].name = N_hello
    /\ res.ret = -EINVAL

-----------------------------------------------------------------------------
(* C25: path resolution returns the EmptyDir sentinel only when the inode   *)
(* reached after the last path component is an empty directory; when an     *)
(* empty directory is matched by a component that is not the last one, the  *)
(* resolution of the remaining components fails with a not-found error.     *)

RefIsEmptyDir(ino) == RefIsDir(ino) /\ ino.file_size = SQFS_EMPTY_FILE_SIZE

\* A component of path before the last one names an empty directory.
EmptyDirBeforeLast(img, path) ==
    LET tokens == Strtok(path, <<>>)
    IN \E k \in 1..(Len(tokens) - 1) :
          RefIsEmptyDir(RefResolve(img, SubSeq(tokens, 1, k),
                                   RefInode(img, img.inodes)))

C25_EmptyDirOnlyForLastComponent ==
    LET img == DiskOf(res.dev)
    IN (/\ res.op = "opendir"
        /\ res.dev = "mmc0"
        /\ res.fail_at > OpendirReads)
       => /\ res.ret = SQFS_EMPTY_DIR
               => RefIsEmptyDir(RefPath(img, res.path))
          /\ EmptyDirBeforeLast(img, res.path) => res.ret = -EINVAL

\* sqfs_opendir("/empty/x") stopped at the empty directory with the
\* sentinel; nothing is named x.
C25_Witness_SentinelBeforeLast ==
    /\ res.op = "opendir"
    /\ res.dev = "mmc0"
    /\ res.fail_at > OpendirReads
    /\ res.path = P_empty_x
    /\ EmptyDirBeforeLast(ImageMmc0, res.path)
    /\ RefPath(ImageMmc0, res.path) = NotFound
    /\ res.ret = SQFS_EMPTY_DIR

-----------------------------------------------------------------------------
(* C26: after sqfs_opendir decodes the inode table, the buffer holds the    *)
(* in-order concatenation of the decoded payloads of all its metadata       *)
(* blocks (block j's payload beginning at 8192 * j when every earlier block *)
(* decodes to 8192 bytes), for every mix of compressed and uncompressed     *)
(* blocks, including a table whose first block is stored uncompressed.      *)

RECURSIVE RefPayloadStart(_, _)
RefPayloadStart(out, j) ==
    IF j = 0 THEN 0 ELSE RefPayloadStart(out, j - 1) + out[j]

\* Copy k of the buffer holds the payload of block k - 1 where the
\* concatenation has it, and no later copy went over it.
PayloadInPlace(r, k) ==
    /\ k <= Len(r.copies)
    /\ r.copies[k].block = k - 1
    /\ r.copies[k].at = RefPayloadStart(r.out, k - 1)
    /\ r.copies[k].len = r.out[k]
    /\ \A l \in (k + 1)..Len(r.copies) :
          \/ r.copies[l].len = 0
          \/ r.copies[l].at >= r.copies[k].at + r.copies[k].len
          \/ r.copies[l].at + r.copies[l].len <= r.copies[k].at

C26_InodeTableIsConcatenation ==
    res.op = "decoded" => \A k \in 1..Len(res.meta) : PayloadInPlace(res, k)

\* A table of an uncompressed block and a compressed one: dest_len held 0
\* when the first block was copied, and the second payload went to offset 0
\* of the buffer, over the first.
C26_Witness_FirstBlockOverwritten ==
    /\ res.op = "decoded"
    /\ Len(res.meta) = 2
    /\ ~res.meta[1].comp
    /\ res.meta[2].comp
    /\ res.dest_len = 0
    /\ res.copies[1].at = 0
    /\ res.copies[2].at = 0
    /\ res.copies[2].len > 0

-----------------------------------------------------------------------------
(* C27: once a device read has failed inside an operation and cur_dev has   *)
(* been reset to NULL, every later sqfs_opendir, sqfs_read or sqfs_ls       *)
(* returns an error without dereferencing or reading the device, until a    *)
(* later sqfs_probe succeeds and reinstalls the device; the same holds for  *)
(* operations invoked before any successful probe.                          *)
C27_NoDeviceNoAccess ==
    (/\ res.op \in {"opendir", "ls"}
     /\ res.dev = NULL)
    => /\ res.ret # 0
       /\ ~res.null_deref
       /\ cur_dev = NULL

\* sqfs_opendir was called with cur_dev NULL and returned -1, after it had
\* read cur_dev->blksz for the size of its buffer.
C27_Witness_BlkszOfNullDevice ==
    /\ res.op = "opendir"
    /\ res.dev = NULL
    /\ cur_dev = NULL
    /\ res.ret = -1
    /\ res.null_deref

-----------------------------------------------------------------------------
(* C28: the loop while (sqfs_readdir(...)) terminates for every directory   *)
(* content, well-formed or corrupt: each call that returns nonzero          *)
(* decreases dirs->size by at least 9, and a call returns 0 as soon as      *)
(* dirs->size is below 12 or the entry type is unknown.                     *)
C28_ReaddirLoopVariant ==
    res.op = "turn"
    => /\ res.ret # 0 => /\ dirs.size <= res.before
                         /\ res.before - dirs.size >= 9
       /\ (res.before < SQFS_DIR_HEADER_SIZE \/ ~res.known) => res.ret = 0

\* dirs->size was INT_MIN + 9 and the entry read took 10 bytes: the call
\* returned nonzero and left dirs->size at INT_MAX.
C28_Witness_SizeWrapped ==
    /\ res.op = "turn"
    /\ res.before = -INT_MAX + 8
    /\ res.ret # 0
    /\ dirs.size = INT_MAX

-----------------------------------------------------------------------------
(* C29: sqfs_read and sqfs_ls start the directory iteration from the same   *)
(* state after sqfs_opendir succeeds on the same directory: dir_header is   *)
(* the header resolved by opendir (dirs.table), entry is that header + 12,  *)
(* entry_count is header.count + 1, size is the directory inode's           *)
(* file_size, and the stream handed to sqfs_readdir is the stream opendir   *)
(* filled; hence sqfs_read examines exactly the entries sqfs_ls lists.      *)

\* The stream d stands at the start of the directory that sqfs_opendir
\* resolved into it (d.table, d.i).
AtStartOfDirectory(img, d, junk) ==
    LET hdr == ReadHeader(img.dir_table, d.table, junk)
        ino == DerefInode(img.inode_table, d.i, junk)
    IN /\ d.dir_header = d.table
       /\ d.entry = d.table + SQFS_DIR_HEADER_SIZE
       /\ d.entry_count = hdr.count + 1
       /\ sqfs_is_dir(ino) => d.size = ino.file_size

\* Before the first sqfs_readdir of either function, the tables holding
\* what was decoded.
C29_ReadStartsWhereLsStarts ==
    (/\ pc \in {"ls_loop", "read_lookup"}
     /\ heap.intact)
    => AtStartOfDirectory(DiskOf(cur_dev), dirs, res.junk)

\* sqfs_read("/hello.txt"): sqfs_opendir resolved the root listing, the
\* size is that of the root directory, and dir_header and entry were
\* computed from the NULL dirsp.
C29_Witness_ReadStartsAtNull ==
    /\ pc = "read_lookup"
    /\ heap.intact
    /\ cur_dev = "mmc0"
    /\ res.path = P_hello
    /\ dirs.table = ListingPos(ImageMmc0.dir_table.lists, 3)
    /\ dirs.size = RefInode(ImageMmc0, ImageMmc0.inodes).file_size
    /\ dirs.dir_header = NullPtr
    /\ dirs.entry = NullPtr

-----------------------------------------------------------------------------
(* C30: in sqfs_opendir the token list is never written at an index >= the  *)
(* number of slots allocated for it, and every token that was allocated is  *)
(* freed: for every absolute path, including "/" alone and paths ending in  *)
(* '/', the computed token_count equals the number of tokens stored.        *)
C30_TokenListWithinSlots ==
    res.op = "tokens"
    => /\ \A j \in res.stored : j < res.slots
       /\ res.freed = res.stored
       /\ res.token_count = Cardinality(res.stored)

\* The path "/": token_count is 0, no slot is allocated, the token "/" is
\* stored at index 0 and is not freed.
C30_Witness_RootTokenOutOfSlots ==
    /\ res.op = "tokens"
    /\ res.path = <<SLASH>>
    /\ res.slots = 0
    /\ res.stored = {0}
    /\ res.freed = {}

====
